---- MODULE Spec2Model ----
(***************************************************************************)
(* Razorpay subscription handling: the webhook reconciliation handlers and *)
(* the plan-change request handlers, over the `tier` document collection.  *)
(*                                                                         *)
(* The repository holds several revisions of the same routes.  The model   *)
(* keeps them apart:                                                       *)
(*   - the webhook route of src/app/api/webhook/route.ts lines 1-398, with  *)
(*     the store functions of src/unnamed/part_001 lines 148-382 and the   *)
(*     plan-change route src/app/api/change-plan/route.ts (specification   *)
(*     Spec);                                                              *)
(*   - the webhook route of src/app/api/webhook/route.ts lines 399-773,    *)
(*     with the store functions of src/lib/firebase.ts lines 1-139         *)
(*     (specification SpecV2; its definitions carry the suffix V2).        *)
(*                                                                         *)
(* Modelling conventions.                                                  *)
(*   - Time is an integer clock `now`; an ISO timestamp or a unix time is  *)
(*     the clock reading it denotes (the conversions of the code are       *)
(*     order-preserving and one-to-one, and nothing here round-trips       *)
(*     them).  The date value 0 stands for null / undefined, which is also *)
(*     what JavaScript's truthiness test makes of a unix time of 0.        *)
(*   - A field that is undefined in an object written to the store is an   *)
(*     absent field of the stored document: Undef.                         *)
(*   - updatedAt / createdAt, which the store functions stamp on every     *)
(*     write, are not modelled.                                            *)
(***************************************************************************)
EXTENDS Integers, Sequences, FiniteSets, TLC

VARIABLES
    store,      \* the user's document of the `tier` collection, or NoDoc
    now,        \* the clock
    req,        \* the last request handled
    pre,        \* `store` as it was before the last request
    resp,       \* the response to the last request
    fx,         \* what the last request did: store reads/writes, gateway calls, confirmations
    seq,        \* whether the last request was a redelivery, and how long after the first delivery
    life,       \* confirmations sent in the current run of activation-family events,
                \* and the subscription whose end the last cancellation applied reported
    tierV2,     \* SpecV2: the documents of the `tier` collection, in insertion order
    reqV2,      \* SpecV2: the last request handled
    preV2,      \* SpecV2: `tierV2` as it was before the last request
    respV2,     \* SpecV2: the response to the last request
    fxV2,       \* SpecV2: what the last request did
    handlers    \* SpecRace: the webhook handlers in flight, each with what it has read

vars == <<store, now, req, pre, resp, fx, seq, life, tierV2, reqV2, preV2, respV2, fxV2, handlers>>
varsV1 == <<store, req, pre, resp, fx, seq, life, handlers>>
varsV2 == <<tierV2, reqV2, preV2, respV2, fxV2>>

(***************************************************************************)
(* Bounds of the model.                                                    *)
(***************************************************************************)
MaxTime == 3            \* the clock runs 1..MaxTime
MaxConfirmations == 2   \* confirmations counted per run of activation-family events
MaxDocs == 2            \* SpecV2: documents the collection may hold

(***************************************************************************)
(* JavaScript values.                                                      *)
(***************************************************************************)
Undef == "undefined"
Null == "null"
NullDate == 0
T == "true"
F == "false"

Times == 1..MaxTime
SubIds == {"sub_1", "sub_2"}
UserId == "u1"

(***************************************************************************)
(* Plan catalogue: src/lib/billing-config.ts                               *)
(***************************************************************************)
BASIC_MONTHLY == "plan_R7G6hu5lBKJdpl"
PRO_MONTHLY == "plan_R7G7VNbsYt55dG"
BASIC_YEARLY == "plan_R7G8xw8x4WDSoM"
PRO_YEARLY == "plan_R7G9duBj5HV9Oz"
UnknownPlanId == "plan_unknown"

RAZORPAY_PLAN_IDS == {BASIC_MONTHLY, PRO_MONTHLY, BASIC_YEARLY, PRO_YEARLY}

NoPlan == [unknown |-> TRUE]

planMapping(planId) ==
    CASE planId = BASIC_MONTHLY -> [tier |-> "BASIC", renewalPeriod |-> "MONTHLY", amount |-> 8900]
      [] planId = PRO_MONTHLY   -> [tier |-> "PRO", renewalPeriod |-> "MONTHLY", amount |-> 12900]
      [] planId = BASIC_YEARLY  -> [tier |-> "BASIC", renewalPeriod |-> "ANNUAL", amount |-> 74900]
      [] planId = PRO_YEARLY    -> [tier |-> "PRO", renewalPeriod |-> "ANNUAL", amount |-> 108900]

\* getPlanDetails falling back to a default plan for an id it does not know
getPlanDetailsDefaulting(planId) ==
    IF planId \in RAZORPAY_PLAN_IDS THEN planMapping(planId) ELSE planMapping(BASIC_MONTHLY)

getPlanDetails(planId) ==
    IF planId \in RAZORPAY_PLAN_IDS THEN planMapping(planId) ELSE NoPlan

(***************************************************************************)
(* The store: src/unnamed/part_001 lines 148-382.  One document per user,  *)
(* found by PK = USER#<userId>, SK = TIER.                                 *)
(***************************************************************************)
NoDoc == [missing |-> TRUE]
NoBilling == [absent |-> TRUE]

BillingInfo(rp, ts, te, ss, se, sid, cid, pm, conf, canc, cdate) ==
    [renewalPeriod |-> rp, trialStartDate |-> ts, trialEndDate |-> te,
     subscriptionStartDate |-> ss, subscriptionEndDate |-> se,
     razorpaySubscriptionId |-> sid, razorpayCustomerId |-> cid,
     paymentMethod |-> pm, isConfirmationSent |-> conf,
     isCancelled |-> canc, cancellationDate |-> cdate]

TierEntity(tier, billing) == [tier |-> tier, billing |-> billing]

\* existingTier?.billing?.<field> for a string or boolean field
BField(doc, f) ==
    IF doc = NoDoc \/ doc.billing = NoBilling THEN Undef ELSE doc.billing[f]

\* existingTier?.billing?.<field> for a date field
BDate(doc, f) ==
    IF doc = NoDoc \/ doc.billing = NoBilling THEN NullDate ELSE doc.billing[f]

\* x || null
OrNull(x) == IF x = Undef THEN Null ELSE x

getTierById(doc) == doc

\* updateUserTier(userId, tier, billing): no document, no write (returns null);
\* otherwise tier and the whole billing object are replaced.
updateUserTier(doc, tier, billing) ==
    IF doc = NoDoc THEN NoDoc ELSE TierEntity(tier, billing)

(***************************************************************************)
(* Webhook route, src/app/api/webhook/route.ts lines 49-398.               *)
(*                                                                         *)
(* A handler is a function of the document, the event's subscription       *)
(* entity, the clock and f, the number of the store call that throws       *)
(* (0: none does).  It yields the document it leaves and what it did.      *)
(***************************************************************************)
Res(doc, threw, fault, conf, reads, writes) ==
    [doc |-> doc,        \* the document after the handler
     threw |-> threw,    \* an exception left the handler
     fault |-> fault,    \* a store call threw (caught inside the handler or not)
     conf |-> conf,      \* confirmation messages sent
     reads |-> reads, writes |-> writes]

\* documents written by one updateUserTier call
Written(doc) == IF doc = NoDoc THEN 0 ELSE 1

\* k store calls were made before this one's two (getTierById, updateUserTier)
\* updateSubscriptionStatus writing isConfirmationSent: false instead of the stored flag
updateSubscriptionStatusResettingFlag(doc, subscription, planDetails, f, k) ==
    IF f = k + 1 THEN Res(doc, TRUE, TRUE, 0, 0, 0)
    ELSE IF f = k + 2 THEN Res(doc, TRUE, TRUE, 0, 1, 0)
    ELSE Res(updateUserTier(doc, planDetails.tier,
                            BillingInfo(planDetails.renewalPeriod, NullDate, NullDate,
                                        subscription.current_start, subscription.current_end,
                                        subscription.id, subscription.customer_id,
                                        subscription.payment_method, F, F, NullDate)),
             FALSE, FALSE, 0, 2, Written(doc))

updateSubscriptionStatus(doc, subscription, planDetails, f, k) ==
    IF f = k + 1 THEN Res(doc, TRUE, TRUE, 0, 0, 0)
    ELSE
        LET existingTier == getTierById(doc)
            existingIsConfirmationSent == BField(existingTier, "isConfirmationSent")
            billing == BillingInfo(planDetails.renewalPeriod, NullDate, NullDate,
                                   subscription.current_start, subscription.current_end,
                                   subscription.id, subscription.customer_id,
                                   subscription.payment_method,
                                   existingIsConfirmationSent, F, NullDate)
        IN  IF f = k + 2 THEN Res(doc, TRUE, TRUE, 0, 1, 0)
            ELSE Res(updateUserTier(doc, planDetails.tier, billing),
                     FALSE, FALSE, 0, 2, Written(doc))

\* updatedBilling of handleSubscriptionActivated: the billing of the record
\* just read, with isConfirmationSent: true
confirmationBilling(existingTierUpdated) ==
    BillingInfo(OrNull(BField(existingTierUpdated, "renewalPeriod")),
                BDate(existingTierUpdated, "trialStartDate"),
                BDate(existingTierUpdated, "trialEndDate"),
                BDate(existingTierUpdated, "subscriptionStartDate"),
                BDate(existingTierUpdated, "subscriptionEndDate"),
                BField(existingTierUpdated, "razorpaySubscriptionId"),
                BField(existingTierUpdated, "razorpayCustomerId"),
                BField(existingTierUpdated, "paymentMethod"),
                T,
                BField(existingTierUpdated, "isCancelled"),
                BDate(existingTierUpdated, "cancellationDate"))

handleSubscriptionActivated(doc, subscription, planDetails, f) ==
    IF f = 1 THEN Res(doc, TRUE, TRUE, 0, 0, 0)
    ELSE
        LET existingTier == getTierById(doc)
            isConfirmationAlreadySent == BField(existingTier, "isConfirmationSent") = T
            u == updateSubscriptionStatus(doc, subscription, planDetails, f, 1)
            existingTierUpdated == getTierById(u.doc)
            updatedBilling == confirmationBilling(existingTierUpdated)
        IN  IF u.threw THEN Res(u.doc, TRUE, TRUE, 0, 1 + u.reads, u.writes)
            ELSE IF isConfirmationAlreadySent
                THEN Res(u.doc, FALSE, FALSE, 0, 1 + u.reads, u.writes)
            \* the confirmation message is sent here; what follows is in a try/catch
            ELSE IF f = 4 THEN Res(u.doc, FALSE, TRUE, 1, 1 + u.reads, u.writes)
            ELSE IF existingTierUpdated = NoDoc
                THEN Res(u.doc, FALSE, FALSE, 1, 2 + u.reads, u.writes)
            ELSE IF f = 5 THEN Res(u.doc, FALSE, TRUE, 1, 2 + u.reads, u.writes)
            ELSE Res(updateUserTier(u.doc, existingTierUpdated.tier, updatedBilling),
                     FALSE, FALSE, 1, 3 + u.reads, u.writes + 1)

handleSubscriptionActivatedSilent(doc, subscription, planDetails, f) ==
    updateSubscriptionStatus(doc, subscription, planDetails, f, 0)

\* hasEnded without the comparison with the clock
hasEndedIgnoringClock(subscription, clock) ==
    subscription.ended_at # 0

hasEnded(subscription, clock) ==
    subscription.ended_at # 0 /\ subscription.ended_at <= clock

\* handleSubscriptionCancelled writing isConfirmationSent: false in the grace
\* branch too
handleSubscriptionCancelledDroppingFlag(doc, subscription, clock, f) ==
    IF f = 1 THEN Res(doc, TRUE, TRUE, 0, 0, 0)
    ELSE IF doc = NoDoc THEN Res(doc, FALSE, FALSE, 0, 1, 0)
    ELSE IF f = 2 THEN Res(doc, TRUE, TRUE, 0, 1, 0)
    ELSE Res(updateUserTier(doc, IF hasEnded(subscription, clock) THEN "NONE" ELSE doc.tier,
                            BillingInfo(IF hasEnded(subscription, clock)
                                            THEN Null ELSE OrNull(BField(doc, "renewalPeriod")),
                                        NullDate, NullDate, NullDate, NullDate, Undef,
                                        BField(doc, "razorpayCustomerId"),
                                        BField(doc, "paymentMethod"), F, T, clock)),
             FALSE, FALSE, 0, 2, 1)

\* handleSubscriptionCancelled writing the billing of an ended subscription
\* (renewalPeriod null) in the grace branch, the tier kept
handleSubscriptionCancelledClearingPeriod(doc, subscription, clock, f) ==
    IF f = 1 THEN Res(doc, TRUE, TRUE, 0, 0, 0)
    ELSE IF doc = NoDoc THEN Res(doc, FALSE, FALSE, 0, 1, 0)
    ELSE IF f = 2 THEN Res(doc, TRUE, TRUE, 0, 1, 0)
    ELSE Res(updateUserTier(doc, IF hasEnded(subscription, clock) THEN "NONE" ELSE doc.tier,
                            BillingInfo(Null, NullDate, NullDate, NullDate, NullDate, Undef,
                                        BField(doc, "razorpayCustomerId"),
                                        BField(doc, "paymentMethod"), F, T, clock)),
             FALSE, FALSE, 0, 2, 1)

handleSubscriptionCancelled(doc, subscription, clock, f) ==
    IF f = 1 THEN Res(doc, TRUE, TRUE, 0, 0, 0)
    ELSE
        LET existingTier == getTierById(doc)
            currentTimestamp == clock
            billing ==
                BillingInfo(Null, NullDate, NullDate, NullDate, NullDate, Undef,
                            BField(existingTier, "razorpayCustomerId"),
                            BField(existingTier, "paymentMethod"),
                            F, T, currentTimestamp)
            updatedBilling ==
                BillingInfo(OrNull(BField(existingTier, "renewalPeriod")),
                            BDate(existingTier, "trialStartDate"),
                            BDate(existingTier, "trialEndDate"),
                            BDate(existingTier, "subscriptionStartDate"),
                            BDate(existingTier, "subscriptionEndDate"),
                            Undef,
                            BField(existingTier, "razorpayCustomerId"),
                            BField(existingTier, "paymentMethod"),
                            BField(existingTier, "isConfirmationSent"),
                            T, currentTimestamp)
        IN  IF existingTier = NoDoc THEN Res(doc, FALSE, FALSE, 0, 1, 0)
            ELSE IF f = 2 THEN Res(doc, TRUE, TRUE, 0, 1, 0)
            ELSE IF hasEnded(subscription, clock)
                THEN Res(updateUserTier(doc, "NONE", billing), FALSE, FALSE, 0, 2, 1)
                ELSE Res(updateUserTier(doc, existingTier.tier, updatedBilling),
                         FALSE, FALSE, 0, 2, 1)

handleSubscriptionUpdated(doc, subscription, planDetails, f) ==
    updateSubscriptionStatus(doc, subscription, planDetails, f, 0)

\* the signature the route computes over the body with the webhook secret
expectedSignature == "hmac_of_body"

\* subscription.notes.userId with a leading USER# removed
CleanUserId(userId) == IF userId = "USER#u1" THEN "u1" ELSE userId

Response(status, body) == [status |-> status, body |-> body]

Out(r, response) ==
    [doc |-> r.doc, resp |-> response, threw |-> r.threw, fault |-> r.fault,
     conf |-> r.conf, reads |-> r.reads, writes |-> r.writes, gateway |-> <<>>]

Untouched(doc) == Res(doc, FALSE, FALSE, 0, 0, 0)

SilentEvents == {"subscription.completed", "subscription.charged",
                 "subscription.authenticated", "subscription.resumed"}

\* the switch of the route, lines 150-181
Dispatch(doc, subscription, eventType, planDetails, clock, f) ==
    CASE eventType = "subscription.activated" ->
            handleSubscriptionActivated(doc, subscription, planDetails, f)
      [] eventType \in SilentEvents ->
            handleSubscriptionActivatedSilent(doc, subscription, planDetails, f)
      [] eventType = "subscription.cancelled" ->
            handleSubscriptionCancelled(doc, subscription, clock, f)
      [] eventType = "subscription.updated" ->
            handleSubscriptionUpdated(doc, subscription, planDetails, f)
      [] OTHER -> Untouched(doc)    \* subscription.pending, and the default branch

\* POST comparing the signature only when the header is there
POSTUnsignedAccepted(doc, rq, clock, f) ==
    IF rq.signature # Undef /\ rq.signature # expectedSignature
        THEN Out(Untouched(doc), Response(400, "Invalid signature"))
    ELSE IF rq.body \in {"empty", "invalid_json", "no_entity"}
        THEN Out(Untouched(doc), Response(200, "ignored"))
    ELSE IF rq.body = "json_null"
        THEN Out(Res(doc, TRUE, FALSE, 0, 0, 0), Response(200, "error"))
    ELSE
        LET subscription == rq.subscription
            planDetails == getPlanDetails(subscription.plan_id)
            r == Dispatch(doc, subscription, rq.event, planDetails, clock, f)
        IN  IF subscription.userId = Undef \/ planDetails = NoPlan
                THEN Out(Untouched(doc), Response(200, "success"))
            ELSE IF r.threw
                THEN Out(r, Response(200, "error"))
                ELSE Out(r, Response(200, "success"))

\* POST of the webhook route: the document of the event's user, the request,
\* the clock, the failing store call
POST(doc, rq, clock, f) ==
    IF rq.signature = Undef
        THEN Out(Untouched(doc), Response(400, "Missing signature"))
    ELSE IF rq.signature # expectedSignature
        THEN Out(Untouched(doc), Response(400, "Invalid signature"))
    ELSE IF rq.body = "empty"
        THEN Out(Untouched(doc), Response(200, "ignored"))
    ELSE IF rq.body = "invalid_json"
        THEN Out(Untouched(doc), Response(200, "ignored"))
    ELSE IF rq.body = "json_null"    \* destructuring null throws: the catch of lines 188-200
        THEN Out(Res(doc, TRUE, FALSE, 0, 0, 0), Response(200, "error"))
    ELSE IF rq.body = "no_entity"
        THEN Out(Untouched(doc), Response(200, "ignored"))
    ELSE
        LET subscription == rq.subscription
            userId == CleanUserId(subscription.userId)
            planDetails == getPlanDetails(subscription.plan_id)
            r == Dispatch(doc, subscription, rq.event, planDetails, clock, f)
        IN  IF subscription.userId = Undef
                THEN Out(Untouched(doc), Response(200, "success"))
            ELSE IF planDetails = NoPlan
                THEN Out(Untouched(doc), Response(200, "success"))
            ELSE IF r.threw
                THEN Out(r, Response(200, "error"))     \* the catch of lines 188-200
                ELSE Out(r, Response(200, "success"))

(***************************************************************************)
(* Plan-change route, src/app/api/change-plan/route.ts.                    *)
(*                                                                         *)
(* g is the number of the gateway call that fails (0: none does), f the    *)
(* number of the store call that throws.  The route yields the response    *)
(* and the gateway calls it made, in order; it never writes the document.  *)
(***************************************************************************)
Truthy(x) == x \notin {Undef, Null, ""}

getUserTier(doc) == doc

\* lines 114-124: the plan id of the target, or Undef for a tier that is neither
PlanIdOf(targetTier, targetRenewalPeriod) ==
    CASE targetTier = "BASIC" ->
            IF targetRenewalPeriod = "ANNUAL" THEN BASIC_YEARLY ELSE BASIC_MONTHLY
      [] targetTier = "PRO" ->
            IF targetRenewalPeriod = "ANNUAL" THEN PRO_YEARLY ELSE PRO_MONTHLY
      [] OTHER -> Undef

\* hasActiveSubscription looking at the tier only
hasActiveSubscriptionByTier(currentTier) ==
    currentTier.tier \in {"BASIC", "PRO"}

\* lines 148-153
hasActiveSubscription(currentTier) ==
    /\ currentTier.billing # NoBilling
    /\ Truthy(currentTier.billing.razorpaySubscriptionId)
    /\ currentTier.billing.isCancelled # T
    /\ currentTier.tier \in {"BASIC", "PRO"}

Plan(tier, renewalPeriod) == [tier |-> tier, renewalPeriod |-> renewalPeriod]

\* lines 174-191
VALID_PLAN_CHANGES ==
    { <<Plan("BASIC", "MONTHLY"), Plan("PRO", "MONTHLY")>>,
      <<Plan("BASIC", "MONTHLY"), Plan("PRO", "ANNUAL")>>,
      <<Plan("BASIC", "ANNUAL"), Plan("PRO", "MONTHLY")>>,
      <<Plan("BASIC", "ANNUAL"), Plan("PRO", "ANNUAL")>>,
      <<Plan("BASIC", "MONTHLY"), Plan("BASIC", "ANNUAL")>>,
      <<Plan("PRO", "MONTHLY"), Plan("PRO", "ANNUAL")>>,
      <<Plan("PRO", "MONTHLY"), Plan("BASIC", "MONTHLY")>>,
      <<Plan("PRO", "MONTHLY"), Plan("BASIC", "ANNUAL")>>,
      <<Plan("PRO", "ANNUAL"), Plan("BASIC", "MONTHLY")>>,
      <<Plan("PRO", "ANNUAL"), Plan("BASIC", "ANNUAL")>>,
      <<Plan("BASIC", "ANNUAL"), Plan("BASIC", "MONTHLY")>>,
      <<Plan("PRO", "ANNUAL"), Plan("PRO", "MONTHLY")>> }

\* isValidChange letting every pair through
isValidChangeAlways(currentTierType, currentRenewalPeriod, targetTier, targetRenewalPeriod) ==
    TRUE

\* isValidChange refusing every change from PRO to BASIC
isValidChangeNoDowngrade(currentTierType, currentRenewalPeriod, targetTier, targetRenewalPeriod) ==
    /\ <<Plan(currentTierType, currentRenewalPeriod),
         Plan(targetTier, targetRenewalPeriod)>> \in VALID_PLAN_CHANGES
    /\ ~(currentTierType = "PRO" /\ targetTier = "BASIC")

isValidChange(currentTierType, currentRenewalPeriod, targetTier, targetRenewalPeriod) ==
    <<Plan(currentTierType, currentRenewalPeriod),
      Plan(targetTier, targetRenewalPeriod)>> \in VALID_PLAN_CHANGES

determineChangeType(currentTier, targetTier) ==
    IF currentTier # targetTier
        THEN IF currentTier = "BASIC" /\ targetTier = "PRO" THEN "upgrade" ELSE "downgrade"
        ELSE "period_change"

Call(op, sub, plan) == [op |-> op, sub |-> sub, plan |-> plan]

\* the id the gateway gives a subscription it creates
NewSubId == "sub_new"

PlanOut(status, body, flow, gateway, reads, fault) ==
    [resp |-> Response(status, body), flow |-> flow, gateway |-> gateway,
     reads |-> reads, fault |-> fault]

\* lines 305-416: one gateway call, the in-place update (PATCH) of the subscription
handleCardPlanChange(currentSubscriptionId, newPlanId, g) ==
    LET update == Call("subscriptions.update", currentSubscriptionId, newPlanId)
    IN  IF g = 1
            THEN PlanOut(500, "Failed to process plan change", "card", <<update>>, 1, TRUE)
            ELSE PlanOut(200, "success", "card", <<update>>, 1, FALSE)

\* handleUPIPlanChange going on to the cancellation and reporting success
\* although the creation of the new subscription failed
handleUPIPlanChangeIgnoringCreate(currentSubscriptionId, newPlanId, g) ==
    LET create == Call("subscriptions.create", NewSubId, newPlanId)
        cancel == Call("subscriptions.cancel", currentSubscriptionId, Undef)
    IN  IF g = 1
            THEN PlanOut(200, "success", "upi", <<create>>, 1, TRUE)
            ELSE PlanOut(200, "success", "upi", <<create, cancel>>, 1, g = 2)

\* lines 419-488: create the new subscription, then cancel the old one
handleUPIPlanChange(currentSubscriptionId, newPlanId, g) ==
    LET create == Call("subscriptions.create", NewSubId, newPlanId)
        cancel == Call("subscriptions.cancel", currentSubscriptionId, Undef)
    IN  IF g = 1
            THEN PlanOut(500, "Failed to process UPI plan change", "upi", <<create>>, 1, TRUE)
        ELSE IF ~Truthy(currentSubscriptionId)
            THEN PlanOut(200, "success", "upi", <<create>>, 1, FALSE)
        ELSE IF g = 2
            THEN PlanOut(500, "Failed to process UPI plan change", "upi",
                         <<create, cancel>>, 1, TRUE)
            ELSE PlanOut(200, "success", "upi", <<create, cancel>>, 1, FALSE)

\* lines 491-565
handleNoSubscriptionIdChange(newPlanId, g) ==
    LET create == Call("subscriptions.create", NewSubId, newPlanId)
    IN  IF g = 1
            THEN PlanOut(500, "Failed to create new subscription for plan change",
                         "new", <<create>>, 1, TRUE)
            ELSE PlanOut(200, "success", "new", <<create>>, 1, FALSE)

Reject(status, body, reads) == PlanOut(status, body, "rejected", <<>>, reads, FALSE)

\* POST of the plan-change route, lines 100-289
changePlanPOST(doc, body, f, g) ==
    LET username == body.username
        targetTier == body.targetTier
        targetRenewalPeriod == body.targetRenewalPeriod
        newPlanId == PlanIdOf(targetTier, targetRenewalPeriod)
        newPlanDetails == getPlanDetails(newPlanId)
        currentTier == getUserTier(doc)
        currentSubscriptionId == BField(currentTier, "razorpaySubscriptionId")
        currentTierType == currentTier.tier
        currentRenewalPeriod == BField(currentTier, "renewalPeriod")
        paymentMethod == BField(currentTier, "paymentMethod")
    IN  IF ~Truthy(username) \/ ~Truthy(targetTier) \/ ~Truthy(targetRenewalPeriod)
            THEN Reject(400, "username, targetTier, and targetRenewalPeriod are required", 0)
        ELSE IF newPlanId = Undef
            THEN Reject(400, "Invalid targetTier. Must be BASIC or PRO", 0)
        ELSE IF newPlanDetails = NoPlan
            THEN Reject(400, "Invalid target plan configuration", 0)
        ELSE IF f = 1
            THEN PlanOut(500, "Failed to process plan change", "rejected", <<>>, 0, TRUE)
        ELSE IF currentTier = NoDoc
            THEN Reject(404, "User tier not found", 1)
        ELSE IF ~hasActiveSubscription(currentTier)
            THEN Reject(400, "No active subscription found to change", 1)
        ELSE IF currentTierType = targetTier /\ currentRenewalPeriod = targetRenewalPeriod
            THEN Reject(400, "User is already on this plan", 1)
        ELSE IF ~isValidChange(currentTierType, currentRenewalPeriod,
                               targetTier, targetRenewalPeriod)
            THEN Reject(400, "Invalid plan change", 1)
        ELSE IF paymentMethod = "upi"
            THEN handleUPIPlanChange(currentSubscriptionId, newPlanId, g)
        ELSE IF ~Truthy(currentSubscriptionId)
            THEN handleNoSubscriptionIdChange(newPlanId, g)
            ELSE handleCardPlanChange(currentSubscriptionId, newPlanId, g)

(***************************************************************************)
(* Requests.  A field that the path taken through the route never reads    *)
(* keeps one value.  Events of every type reach the route in every         *)
(* variety of subscription id, plan, period end and payment method for     *)
(* the three types activated / charged / updated, and as samples for the   *)
(* types that share the code of charged.                                   *)
(***************************************************************************)
Subscription(id, plan_id, userId, current_end, ended_at, payment_method) ==
    [id |-> id, plan_id |-> plan_id, userId |-> userId, customer_id |-> "cust_1",
     current_start |-> 1, current_end |-> current_end, ended_at |-> ended_at,
     payment_method |-> payment_method]

WebhookRequest(signature, body, event, subscription) ==
    [route |-> "webhook", signature |-> signature, body |-> body,
     event |-> event, subscription |-> subscription]

NoSubscription == Subscription(Undef, Undef, Undef, 0, 0, Undef)

EventPlans == {BASIC_MONTHLY, PRO_MONTHLY, PRO_YEARLY}
PeriodEnds == 2..MaxTime
EndedAts == 0..(MaxTime - 1)
PaymentMethods == {"upi", "card"}
BadSignatures == {Undef, "forged"}

\* event payloads that reach a handler
StatusPayloads ==
    { <<ev, Subscription(id, pl, "u1", ce, 0, pm)>> :
        ev \in {"subscription.activated", "subscription.charged", "subscription.updated"},
        id \in SubIds, pl \in EventPlans, ce \in PeriodEnds, pm \in PaymentMethods }
    \cup
    { <<ev, Subscription(id, PRO_MONTHLY, "u1", 2, 0, "card")>> :
        ev \in {"subscription.completed", "subscription.authenticated",
                "subscription.resumed"},
        id \in SubIds }

CancelPayloads ==
    { <<"subscription.cancelled", Subscription(id, BASIC_MONTHLY, "u1", 2, ea, "card")>> :
        id \in SubIds, ea \in EndedAts }

SamplePayloads ==
    { <<ev, Subscription("sub_1", PRO_MONTHLY, us, 2, 1, "card")>> :
        ev \in {"subscription.activated", "subscription.charged", "subscription.updated",
                "subscription.cancelled", "subscription.pending", "subscription.halted"},
        us \in {"u1", "USER#u1"} }

\* event payloads the route drops: no user id in the notes, or an unknown plan
DroppedPayloads ==
    { <<ev, Subscription("sub_1", pl, us, 2, 1, "card")>> :
        ev \in {"subscription.activated", "subscription.cancelled", "subscription.halted"},
        pl \in {PRO_MONTHLY, UnknownPlanId}, us \in {"u1", Undef} }
    \ SamplePayloads

Json(payloads) == { <<"json", p[1], p[2]>> : p \in payloads }

NotJson == { <<b, Undef, NoSubscription>> : b \in {"empty", "invalid_json", "json_null", "no_entity"} }

Signed(sg, bodies) == { WebhookRequest(sg, b[1], b[2], b[3]) : b \in bodies }

\* deliveries <<request, f>>: f is the store call that throws, 0 for none
WebhookDeliveries ==
    (Signed(expectedSignature,
            Json(StatusPayloads \cup CancelPayloads \cup SamplePayloads \cup DroppedPayloads)
            \cup NotJson)
        \X {0})
    \cup (Signed(expectedSignature, Json(SamplePayloads)) \X (1..5))
    \cup ((UNION { Signed(sg, Json(SamplePayloads \cup DroppedPayloads) \cup NotJson) :
                     sg \in BadSignatures })
        \X {0})

PlanChangeRequest(username, targetTier, targetRenewalPeriod) ==
    [route |-> "change-plan", username |-> username, targetTier |-> targetTier,
     targetRenewalPeriod |-> targetRenewalPeriod]

\* requests <<body, f, g>>: f the store call that throws, g the gateway call that fails
PlanChangeRequests ==
    ({ PlanChangeRequest("u1", tt, tp) :
        tt \in {"BASIC", "PRO", "GOLD"}, tp \in {"MONTHLY", "ANNUAL", "WEEKLY"} }
        \X {0} \X (0..2))
    \cup ({ PlanChangeRequest(Undef, "PRO", "MONTHLY"),
            PlanChangeRequest("u1", Undef, "MONTHLY"),
            PlanChangeRequest("u1", "PRO", Undef) } \X {0} \X {0})
    \cup ({ PlanChangeRequest("u1", "PRO", "ANNUAL") } \X {1} \X {0})

\* a webhook request that reaches the switch of the route
Dispatched(rq) ==
    /\ rq.route = "webhook"
    /\ rq.signature = expectedSignature
    /\ rq.body = "json"
    /\ rq.subscription.userId # Undef
    /\ getPlanDetails(rq.subscription.plan_id) # NoPlan

ConfirmationFamily == {"subscription.activated", "subscription.charged",
                       "subscription.completed", "subscription.resumed"}

(***************************************************************************)
(* The state machine of Spec.  The routes handle one request at a time:    *)
(* a request is handled (Webhook, ChangePlan), the gateway may deliver the *)
(* same event again (Redeliver), and the response goes out (Respond).      *)
(***************************************************************************)
NoRequest == [route |-> "none"]
Idle == [r |-> NoRequest, at |-> 0]
NoResponse == Response(0, "none")
Effects(reads, writes, gateway, confirmations, fault) ==
    [reads |-> reads, writes |-> writes, gateway |-> gateway,
     confirmations |-> confirmations, fault |-> fault]
NoEffects == Effects(0, 0, <<>>, 0, FALSE)
NoLife == [sub |-> Undef, conf |-> 0, ended |-> Undef]
NoHandlers == <<>>
Delivery(again, dt) == [again |-> again, dt |-> dt]
FirstDelivery == Delivery(FALSE, 0)

\* documents that exist before any webhook: none, a new user's, a trial user's
InitDocs ==
    { NoDoc,
      TierEntity("NONE", NoBilling),
      TierEntity("TRIAL", BillingInfo(Null, 1, 2, NullDate, NullDate, Undef, Undef,
                                      Undef, Undef, Undef, NullDate)) }

InitV2 ==
    /\ tierV2 = <<>>
    /\ reqV2 = Idle
    /\ preV2 = <<>>
    /\ respV2 = NoResponse
    /\ fxV2 = NoEffects

InitV1(docs) ==
    /\ store \in docs
    /\ now = 1
    /\ req = Idle
    /\ pre = NoDoc
    /\ resp = NoResponse
    /\ fx = NoEffects
    /\ seq = FirstDelivery
    /\ life = NoLife
    /\ handlers = NoHandlers

Init == InitV1(InitDocs) /\ InitV2

\* the route handles webhook request rq at time `clock`, store call f throwing;
\* dl tells whether rq is the request handled just before, delivered again
Handle(rq, f, clock, dl) ==
    LET o == POST(store, rq, clock, f)
        family == Dispatched(rq) /\ rq.event \in ConfirmationFamily
        ended == /\ Dispatched(rq)
                 /\ rq.event = "subscription.cancelled"
                 /\ hasEnded(rq.subscription, clock)
                 /\ o.writes = 1
    IN  /\ store' = o.doc
        /\ pre' = store
        /\ req' = [r |-> rq, at |-> clock]
        /\ resp' = o.resp
        /\ fx' = Effects(o.reads, o.writes, o.gateway, o.conf, o.fault)
        /\ seq' = dl
        /\ life' = IF family
                     THEN IF life.sub = rq.subscription.id
                            THEN [life EXCEPT !.conf = @ + o.conf]
                            ELSE [life EXCEPT !.sub = rq.subscription.id, !.conf = o.conf]
                     ELSE IF Dispatched(rq)
                            THEN [NoLife EXCEPT !.ended = IF ended THEN rq.subscription.id
                                                                 ELSE life.ended]
                            ELSE life
        /\ life'.conf <= MaxConfirmations
        /\ now' = clock
        /\ UNCHANGED <<varsV2, handlers>>

Webhook(rq, f) ==
    /\ req = Idle
    /\ Handle(rq, f, now, FirstDelivery)

\* the gateway delivers the event just handled once more, dt later
Redeliver(dt) ==
    /\ Dispatched(req.r)
    /\ ~fx.fault
    /\ ~seq.again
    /\ now + dt <= MaxTime
    /\ Handle(req.r, 0, now + dt, Delivery(TRUE, dt))

ChangePlan(body, f, g) ==
    LET o == changePlanPOST(store, body, f, g)
    IN  /\ req = Idle
        /\ pre' = store
        /\ req' = [r |-> body, at |-> now]
        /\ resp' = o.resp
        /\ fx' = Effects(o.reads, 0, o.gateway, 0, o.fault)
        /\ UNCHANGED <<store, seq, life, now, varsV2, handlers>>

Respond ==
    /\ req # Idle
    /\ req' = Idle
    /\ pre' = NoDoc
    /\ resp' = NoResponse
    /\ fx' = NoEffects
    /\ seq' = FirstDelivery
    /\ UNCHANGED <<store, life, now, varsV2, handlers>>

Tick ==
    /\ req = Idle
    /\ reqV2 = Idle
    /\ now < MaxTime
    /\ now' = now + 1
    /\ UNCHANGED <<varsV1, varsV2>>

Next ==
    \/ \E d \in WebhookDeliveries : Webhook(d[1], d[2])
    \/ \E dt \in 0..1 : Redeliver(dt)
    \/ \E d \in PlanChangeRequests : ChangePlan(d[1], d[2], d[3])
    \/ Respond
    \/ Tick

Spec == Init /\ [][Next]_vars

(***************************************************************************)
(* The store of src/lib/firebase.ts.  tierV2 holds the documents of the    *)
(* `tier` collection that carry the user's id, in the order a query        *)
(* returns them: by document id, which the store draws at random when a    *)
(* document is added.  Every function of the store goes by docs[0] of the  *)
(* query, and none deletes a document: a document that is not the first    *)
(* is never read or written again, and is kept as Shelved.                 *)
(* A document is kept flat (billing.<field> is the field <field>); a date  *)
(* is the clock reading in days, a calendar month 30 days and a year 365.  *)
(* Fields that only stamp the time of a write (subscriptionStartDate,      *)
(* transitionedAt, proratedPaidAt, mandateAuthenticatedAt) are left out.   *)
(***************************************************************************)
Shelved == [shelved |-> TRUE]

TierEntityV2(tier, renewalPeriod, subscriptionEndDate, razorpaySubscriptionId) ==
    [tier |-> tier, renewalPeriod |-> renewalPeriod,
     subscriptionEndDate |-> subscriptionEndDate,
     razorpaySubscriptionId |-> razorpaySubscriptionId,
     upgradeInProgress |-> Undef, newPlanId |-> Undef, newSubscriptionId |-> Undef,
     proratedOrderId |-> Undef, proratedPaid |-> Undef,
     subscriptionTransitioned |-> Undef, mandateAuthenticated |-> Undef,
     paymentFailed |-> Undef, subscriptionHalted |-> Undef,
     isCancelled |-> Undef, payment_method |-> Undef, targetPlanId |-> Undef,
     status |-> Undef, lastPaymentStatus |-> Undef]

\* db.collection('tier').add: the new document's id puts it first in the
\* query (p = 1) or behind the first
createUserTierV2(docs, data, p) ==
    IF p = 1 \/ docs = <<>>
        THEN <<data>> \o [i \in 1..Len(docs) |-> Shelved]
        ELSE docs \o <<Shelved>>

\* the dotted-field update of one document
Updated(doc, updates) ==
    [k \in DOMAIN doc |-> IF k \in DOMAIN updates THEN updates[k] ELSE doc[k]]

\* updateUserTier(userId, updates): the first document of the query is updated
updateUserTierV2(docs, updates) ==
    IF docs = <<>> THEN docs ELSE [docs EXCEPT ![1] = Updated(docs[1], updates)]

getUserTierV2(docs) == IF docs = <<>> THEN NoDoc ELSE docs[1]

(***************************************************************************)
(* Webhook route, src/app/api/webhook/route.ts lines 399-773.  f is the    *)
(* number of the store call that throws, g the number of the gateway call  *)
(* that fails, p the position a document added by the handler takes.       *)
(***************************************************************************)
ResV2(docs, threw, fault, gateway, reads, writes) ==
    [docs |-> docs, threw |-> threw, fault |-> fault, gateway |-> gateway,
     reads |-> reads, writes |-> writes]

UntouchedV2(docs) == ResV2(docs, FALSE, FALSE, <<>>, 0, 0)

\* documents one updateUserTier call writes
WrittenV2(docs) == IF docs = <<>> THEN 0 ELSE 1

\* a handler that is one updateUserTier call
UpdateOnly(docs, updates, f) ==
    IF f = 1 THEN ResV2(docs, TRUE, TRUE, <<>>, 0, 0)
    ELSE ResV2(updateUserTierV2(docs, updates), FALSE, FALSE, <<>>, 1, WrittenV2(docs))

\* new Date() plus one billing period
nextBillingDate(clock, renewalPeriod) ==
    IF renewalPeriod = "ANNUAL" THEN clock + 365 ELSE clock + 30

\* lines 739-773: everything inside is in a try/catch; the update is store call 2
processImmediateUpgrade(docs, currentTier, f) ==
    LET newPlanId == currentTier.newPlanId
        newPlanDetails == getPlanDetails(newPlanId)
        updates == [tier |-> newPlanDetails.tier, upgradeInProgress |-> F, proratedPaid |-> T]
    IN  IF ~Truthy(newPlanId) THEN ResV2(docs, FALSE, FALSE, <<>>, 1, 0)
        ELSE IF newPlanDetails = NoPlan THEN ResV2(docs, FALSE, FALSE, <<>>, 1, 0)
        ELSE IF f = 2 THEN ResV2(docs, FALSE, TRUE, <<>>, 1, 0)
        ELSE ResV2(updateUserTierV2(docs, updates), FALSE, FALSE, <<>>, 2, 1)

\* handlePaymentCaptured finalizing the upgrade without comparing order ids
handlePaymentCapturedAnyOrder(docs, payment, f) ==
    IF payment.type = "prorated_upgrade" /\ Truthy(payment.username)
        THEN IF f = 1 THEN ResV2(docs, TRUE, TRUE, <<>>, 0, 0)
             ELSE LET currentTier == getUserTierV2(docs)
                  IN  IF currentTier # NoDoc /\ currentTier.upgradeInProgress = T
                          THEN processImmediateUpgrade(docs, currentTier, f)
                          ELSE ResV2(docs, FALSE, FALSE, <<>>, 1, 0)
    ELSE IF Truthy(payment.userId) /\ Truthy(payment.subscription_id)
        THEN UpdateOnly(docs, [razorpaySubscriptionId |-> payment.subscription_id,
                               tier |-> "BASIC"], f)
        ELSE UntouchedV2(docs)

\* lines 517-543
handlePaymentCaptured(docs, payment, f) ==
    IF payment.type = "prorated_upgrade" /\ Truthy(payment.username)
        THEN IF f = 1 THEN ResV2(docs, TRUE, TRUE, <<>>, 0, 0)
             ELSE LET currentTier == getUserTierV2(docs)
                  IN  IF /\ currentTier # NoDoc
                         /\ currentTier.upgradeInProgress = T
                         /\ currentTier.proratedOrderId = payment.orderId
                          THEN processImmediateUpgrade(docs, currentTier, f)
                          ELSE ResV2(docs, FALSE, FALSE, <<>>, 1, 0)
    ELSE IF Truthy(payment.userId) /\ Truthy(payment.subscription_id)
        THEN UpdateOnly(docs, [razorpaySubscriptionId |-> payment.subscription_id,
                               tier |-> "BASIC"], f)
        ELSE UntouchedV2(docs)

\* lines 545-560
handleSubscriptionAuthenticated(docs, subscription, f) ==
    IF Truthy(subscription.userId)
        THEN UpdateOnly(docs, [mandateAuthenticated |-> T], f)
        ELSE UntouchedV2(docs)

\* lines 621-642: the document of a new subscription is added; store call k
ActivatedAsNew(docs, subscription, planDetails, clock, f, p, k) ==
    IF f = k THEN ResV2(docs, TRUE, TRUE, <<>>, k - 1, 0)
    ELSE ResV2(createUserTierV2(docs,
                   TierEntityV2(planDetails.tier, planDetails.renewalPeriod,
                                nextBillingDate(clock, planDetails.renewalPeriod),
                                subscription.id),
                   p),
               FALSE, FALSE, <<>>, k - 1, 1)

\* handleSubscriptionActivatedV2 leaving the tier of the record as it is when
\* the subscription of an upgrade is activated
handleSubscriptionActivatedV2LeavingTier(docs, subscription, clock, f, g, p) ==
    LET planDetails == getPlanDetails(subscription.planId)
        isUpgrade == subscription.isUpgrade = "true"
        currentTier == getUserTierV2(docs)
        cancelOld == /\ Truthy(currentTier.razorpaySubscriptionId)
                     /\ currentTier.razorpaySubscriptionId # subscription.id
        gateway == IF cancelOld
                     THEN <<Call("subscriptions.cancel", currentTier.razorpaySubscriptionId, Undef)>>
                     ELSE <<>>
        updates == [razorpaySubscriptionId |-> subscription.id,
                    subscriptionEndDate |-> nextBillingDate(clock, planDetails.renewalPeriod),
                    renewalPeriod |-> planDetails.renewalPeriod,
                    upgradeInProgress |-> F, newSubscriptionId |-> Null, newPlanId |-> Null,
                    subscriptionTransitioned |-> T]
    IN  IF ~(Truthy(subscription.userId) /\ Truthy(subscription.planId))
            THEN UntouchedV2(docs)
        ELSE IF planDetails = NoPlan THEN UntouchedV2(docs)
        ELSE IF ~isUpgrade
            THEN ActivatedAsNew(docs, subscription, planDetails, clock, f, p, 1)
        ELSE IF f = 1 THEN ResV2(docs, TRUE, TRUE, <<>>, 0, 0)
        ELSE IF ~(currentTier # NoDoc /\ currentTier.newSubscriptionId = subscription.id)
            THEN ActivatedAsNew(docs, subscription, planDetails, clock, f, p, 2)
        ELSE IF f = 2 THEN ResV2(docs, TRUE, TRUE, gateway, 1, 0)
        ELSE ResV2(updateUserTierV2(docs, updates), FALSE, cancelOld /\ g = 1, gateway, 2, 1)

\* lines 562-645
handleSubscriptionActivatedV2(docs, subscription, clock, f, g, p) ==
    LET planDetails == getPlanDetails(subscription.planId)
        isUpgrade == subscription.isUpgrade = "true"
        currentTier == getUserTierV2(docs)
        cancelOld == /\ Truthy(currentTier.razorpaySubscriptionId)
                     /\ currentTier.razorpaySubscriptionId # subscription.id
        gateway == IF cancelOld
                     THEN <<Call("subscriptions.cancel", currentTier.razorpaySubscriptionId, Undef)>>
                     ELSE <<>>
        updates == [tier |-> planDetails.tier,
                    razorpaySubscriptionId |-> subscription.id,
                    subscriptionEndDate |-> nextBillingDate(clock, planDetails.renewalPeriod),
                    renewalPeriod |-> planDetails.renewalPeriod,
                    upgradeInProgress |-> F, newSubscriptionId |-> Null, newPlanId |-> Null,
                    subscriptionTransitioned |-> T]
    IN  IF ~(Truthy(subscription.userId) /\ Truthy(subscription.planId))
            THEN UntouchedV2(docs)
        ELSE IF planDetails = NoPlan THEN UntouchedV2(docs)
        ELSE IF ~isUpgrade
            THEN ActivatedAsNew(docs, subscription, planDetails, clock, f, p, 1)
        ELSE IF f = 1 THEN ResV2(docs, TRUE, TRUE, <<>>, 0, 0)
        ELSE IF ~(currentTier # NoDoc /\ currentTier.newSubscriptionId = subscription.id)
            THEN ActivatedAsNew(docs, subscription, planDetails, clock, f, p, 2)
        \* the failure of the cancellation (g = 1) is caught and logged
        ELSE IF f = 2 THEN ResV2(docs, TRUE, TRUE, gateway, 1, 0)
        ELSE ResV2(updateUserTierV2(docs, updates), FALSE, cancelOld /\ g = 1, gateway, 2, 1)

\* lines 647-661
handleSubscriptionCharged(docs, subscription, clock, f) ==
    IF Truthy(subscription.userId)
        THEN UpdateOnly(docs, [subscriptionEndDate |-> clock + 30], f)
        ELSE UntouchedV2(docs)

\* lines 663-673; FieldValue.delete() leaves the field absent
handleSubscriptionCancelledV2(docs, subscription, f) ==
    IF Truthy(subscription.userId)
        THEN UpdateOnly(docs, [razorpaySubscriptionId |-> Undef,
                               subscriptionEndDate |-> NullDate], f)
        ELSE UntouchedV2(docs)

\* lines 675-694
handleSubscriptionUpdatedV2(docs, subscription, f) ==
    LET planDetails == getPlanDetails(subscription.planId)
    IN  IF ~(Truthy(subscription.userId) /\ Truthy(subscription.planId))
            THEN UntouchedV2(docs)
        ELSE IF planDetails = NoPlan THEN UntouchedV2(docs)
        ELSE UpdateOnly(docs, [tier |-> planDetails.tier,
                               renewalPeriod |-> planDetails.renewalPeriod], f)

\* lines 725-736
handleSubscriptionCompleted(docs, subscription, f) ==
    IF Truthy(subscription.userId)
        THEN UpdateOnly(docs, [razorpaySubscriptionId |-> Undef,
                               subscriptionEndDate |-> NullDate, tier |-> "NONE"], f)
        ELSE UntouchedV2(docs)

OutV2(r, response) ==
    [docs |-> r.docs, resp |-> response, threw |-> r.threw, fault |-> r.fault,
     gateway |-> r.gateway, reads |-> r.reads, writes |-> r.writes]

\* an exception that is no failure of a store call: a TypeError, a SyntaxError
ThrewV2(docs) == ResV2(docs, TRUE, FALSE, <<>>, 0, 0)

\* the switch of the route, lines 461-506
DispatchV2(docs, rq, clock, f, g, p) ==
    CASE rq.event = "payment.captured" -> handlePaymentCaptured(docs, rq.entity, f)
      [] rq.event \in {"payment.failed", "refund.created", "refund.processed"} ->
            UntouchedV2(docs)
      [] rq.event = "subscription.activated" ->
            handleSubscriptionActivatedV2(docs, rq.entity, clock, f, g, p)
      [] rq.event = "subscription.authenticated" ->
            handleSubscriptionAuthenticated(docs, rq.entity, f)
      [] rq.event = "subscription.updated" ->
            handleSubscriptionUpdatedV2(docs, rq.entity, f)
      [] rq.event = "subscription.charged" ->
            handleSubscriptionCharged(docs, rq.entity, clock, f)
      [] rq.event = "subscription.cancelled" ->
            handleSubscriptionCancelledV2(docs, rq.entity, f)
      [] rq.event = "subscription.completed" ->
            handleSubscriptionCompleted(docs, rq.entity, f)

SwitchCasesV2 == {"payment.captured", "payment.failed", "refund.created", "refund.processed",
                  "subscription.activated", "subscription.authenticated",
                  "subscription.updated", "subscription.charged",
                  "subscription.cancelled", "subscription.completed"}

\* POST of the webhook route, lines 426-514
POSTV2(docs, rq, clock, f, g, p) ==
    IF rq.signature = Undef
        THEN OutV2(UntouchedV2(docs), Response(400, "Missing signature"))
    ELSE IF rq.signature # expectedSignature
        THEN OutV2(UntouchedV2(docs), Response(400, "Invalid signature"))
    \* JSON.parse of an empty or malformed body throws inside the try; so does
    \* reading event.event of null, and payload.<kind>.entity of a payload without it
    ELSE IF rq.body \in {"empty", "invalid_json", "json_null"}
        THEN OutV2(ThrewV2(docs), Response(500, "Internal server error"))
    ELSE IF rq.event \notin SwitchCasesV2
        THEN OutV2(UntouchedV2(docs), Response(200, "ok"))
    ELSE IF rq.body = "no_entity"
        THEN OutV2(ThrewV2(docs), Response(500, "Internal server error"))
    ELSE
        LET r == DispatchV2(docs, rq, clock, f, g, p)
        IN  IF r.threw
                THEN OutV2(r, Response(500, "Internal server error"))
                ELSE OutV2(r, Response(200, "ok"))

(***************************************************************************)
(* Upgrade route, src/app/api/upgrade-subscription/route.ts, and the       *)
(* billing arithmetic of src/lib/billing-config.ts.                        *)
(***************************************************************************)
\* Math.round of the quotient n / d, d > 0
Round(n, d) == (2 * n + d) \div (2 * d)

Max(a, b) == IF a >= b THEN a ELSE b

\* calculateProratedUpgradeCost cutting the fraction off
calculateProratedUpgradeCostTruncating(currentPlanAmount, newPlanAmount, daysRemaining, totalDaysInCycle) ==
    Max(0, ((newPlanAmount - currentPlanAmount) * daysRemaining) \div totalDaysInCycle)

calculateProratedUpgradeCost(currentPlanAmount, newPlanAmount, daysRemaining, totalDaysInCycle) ==
    Max(0, Round((newPlanAmount - currentPlanAmount) * daysRemaining, totalDaysInCycle))

getDaysRemainingInCycle(subscriptionEndDate, clock) == Max(0, subscriptionEndDate - clock)

getTotalDaysInCycle(renewalPeriod) == IF renewalPeriod = "ANNUAL" THEN 365 ELSE 30

getCurrentPlanId(tier, renewalPeriod) ==
    CASE tier = "BASIC" -> IF renewalPeriod = "ANNUAL" THEN BASIC_YEARLY ELSE BASIC_MONTHLY
      [] tier = "PRO" -> IF renewalPeriod = "ANNUAL" THEN PRO_YEARLY ELSE PRO_MONTHLY
      [] OTHER -> BASIC_MONTHLY

\* x || "MONTHLY"
OrMonthly(x) == IF Truthy(x) THEN x ELSE "MONTHLY"

\* the ids the gateway gives the subscription and the order it creates
CreatedSubId(currentSubscriptionId) ==
    IF currentSubscriptionId = "sub_1" THEN "sub_2" ELSE "sub_1"
CreatedOrderId == "order_1"

\* Step 1 of the upgrade route, lines 83-109: the prorated amount of the order
upgradeProratedAmount(currentTier, newPlanDetails, clock) ==
    LET billingEndDate == currentTier.subscriptionEndDate
        currentPlanDetails ==
            getPlanDetails(getCurrentPlanId(currentTier.tier, OrMonthly(currentTier.renewalPeriod)))
    IN  IF billingEndDate # NullDate
            THEN calculateProratedUpgradeCost(
                     currentPlanDetails.amount, newPlanDetails.amount,
                     getDaysRemainingInCycle(billingEndDate, clock),
                     getTotalDaysInCycle(OrMonthly(currentTier.renewalPeriod)))
            ELSE 0

\* POST of the upgrade route, lines 36-192
upgradeSubscriptionPOST(docs, body, clock, f, g) ==
    LET newPlanDetails == getPlanDetails(body.newPlanId)
        currentTier == getUserTierV2(docs)
        proratedAmount == upgradeProratedAmount(currentTier, newPlanDetails, clock)
        order == IF proratedAmount > 0
                   THEN <<Call("orders.create", CreatedOrderId, body.newPlanId)>>
                   ELSE <<>>
        create == Call("subscriptions.create", CreatedSubId(body.currentSubscriptionId),
                       body.newPlanId)
        updates == [upgradeInProgress |-> T, newPlanId |-> body.newPlanId,
                    newSubscriptionId |-> CreatedSubId(body.currentSubscriptionId),
                    proratedOrderId |-> IF proratedAmount > 0 THEN CreatedOrderId ELSE Null]
        failed(gateway, reads) ==
            OutV2(ResV2(docs, TRUE, TRUE, gateway, reads, 0),
                  Response(500, "Failed to process upgrade"))
        rejected(status, error, reads) ==
            OutV2(ResV2(docs, FALSE, FALSE, <<>>, reads, 0), Response(status, error))
    IN  IF ~(Truthy(body.username) /\ Truthy(body.newPlanId)
              /\ Truthy(body.currentSubscriptionId))
            THEN rejected(400, "username, newPlanId, and currentSubscriptionId are required", 0)
        ELSE IF newPlanDetails = NoPlan THEN rejected(400, "Invalid newPlanId", 0)
        ELSE IF f = 1 THEN failed(<<>>, 0)
        ELSE IF currentTier = NoDoc
                \/ currentTier.razorpaySubscriptionId # body.currentSubscriptionId
            THEN rejected(404, "Current subscription not found or mismatch", 1)
        ELSE IF currentTier.tier = newPlanDetails.tier
            THEN rejected(400, "User is already on this tier", 1)
        ELSE IF proratedAmount > 0 /\ g = 1 THEN failed(order, 1)
        ELSE IF g = Len(order) + 1 THEN failed(order \o <<create>>, 1)
        ELSE IF f = 2 THEN failed(order \o <<create>>, 1)
        ELSE OutV2(ResV2(updateUserTierV2(docs, updates), FALSE, FALSE,
                         order \o <<create>>, 2, 1),
                   Response(200, "success"))

(***************************************************************************)
(* Requests and state machine of SpecV2.                                   *)
(***************************************************************************)
\* a subscription entity: its id and notes.userId, notes.planId, notes.isUpgrade
SubscriptionV2(id, userId, planId, isUpgrade) ==
    [id |-> id, userId |-> userId, planId |-> planId, isUpgrade |-> isUpgrade]

\* a payment entity: notes.type, notes.username, notes.orderId, notes.userId,
\* notes.subscription_id
PaymentV2(type, username, orderId, userId, subscription_id) ==
    [type |-> type, username |-> username, orderId |-> orderId, userId |-> userId,
     subscription_id |-> subscription_id]

WebhookRequestV2(signature, body, event, entity) ==
    [route |-> "webhook", signature |-> signature, body |-> body,
     event |-> event, entity |-> entity]

EventPlansV2 == {BASIC_MONTHLY, PRO_YEARLY}

ActivationPayloadsV2 ==
    { <<"subscription.activated", SubscriptionV2(id, "USER#u1", pl, up)>> :
        id \in SubIds, pl \in EventPlansV2, up \in {"true", "false"} }

StatusPayloadsV2 ==
    { <<"subscription.updated", SubscriptionV2("sub_1", "u1", pl, "false")>> :
        pl \in EventPlansV2 }
    \cup
    { <<ev, SubscriptionV2("sub_1", "u1", BASIC_MONTHLY, "false")>> :
        ev \in {"subscription.authenticated", "subscription.charged",
                "subscription.cancelled", "subscription.completed"} }

PaymentPayloadsV2 ==
    { <<"payment.captured", PaymentV2("prorated_upgrade", "u1", oid, Undef, Undef)>> :
        oid \in {CreatedOrderId, "order_other"} }
    \cup
    { <<"payment.captured", PaymentV2(Undef, Undef, Undef, "USER#u1", "sub_1")>>,
      <<"payment.captured", PaymentV2(Undef, Undef, Undef, Undef, Undef)>>,
      <<"payment.failed", PaymentV2(Undef, Undef, Undef, "USER#u1", "sub_1")>>,
      <<"refund.created", PaymentV2(Undef, Undef, Undef, Undef, "sub_1")>>,
      <<"refund.processed", PaymentV2(Undef, Undef, Undef, Undef, "sub_1")>> }

\* events no handler applies: no user id, an unknown plan, an unknown type
DroppedPayloadsV2 ==
    { <<"subscription.activated", SubscriptionV2("sub_1", Undef, BASIC_MONTHLY, "false")>>,
      <<"subscription.activated", SubscriptionV2("sub_1", "u1", UnknownPlanId, "false")>>,
      <<"subscription.charged", SubscriptionV2("sub_1", Undef, BASIC_MONTHLY, "false")>>,
      <<"subscription.halted", SubscriptionV2("sub_1", "u1", BASIC_MONTHLY, "false")>> }

SamplePayloadsV2 ==
    { <<"subscription.activated", SubscriptionV2("sub_2", "USER#u1", PRO_YEARLY, "true")>>,
      <<"subscription.activated", SubscriptionV2("sub_1", "USER#u1", BASIC_MONTHLY, "false")>>,
      <<"subscription.charged", SubscriptionV2("sub_1", "u1", BASIC_MONTHLY, "false")>>,
      <<"payment.captured", PaymentV2("prorated_upgrade", "u1", CreatedOrderId, Undef, Undef)>> }

NotJsonV2 ==
    { <<b, "subscription.activated", SubscriptionV2(Undef, Undef, Undef, Undef)>> :
        b \in {"empty", "invalid_json", "json_null", "no_entity"} }

SignedV2(sg, bodies) == { WebhookRequestV2(sg, b[1], b[2], b[3]) : b \in bodies }

\* deliveries <<request, f, g>>
WebhookDeliveriesV2 ==
    (SignedV2(expectedSignature,
              Json(ActivationPayloadsV2 \cup StatusPayloadsV2 \cup PaymentPayloadsV2
                   \cup DroppedPayloadsV2) \cup NotJsonV2)
        \X {0} \X {0})
    \cup (SignedV2(expectedSignature, Json(SamplePayloadsV2)) \X (1..2) \X {0})
    \cup (SignedV2(expectedSignature, Json(SamplePayloadsV2)) \X {0} \X {1})
    \cup ((UNION { SignedV2(sg, Json(DroppedPayloadsV2)) : sg \in BadSignatures })
        \X {0} \X {0})

UpgradeRequest(username, newPlanId, currentSubscriptionId) ==
    [route |-> "upgrade-subscription", username |-> username, newPlanId |-> newPlanId,
     currentSubscriptionId |-> currentSubscriptionId]

\* requests <<body, f, g>>
UpgradeRequests ==
    ({ UpgradeRequest("u1", pl, id) :
        pl \in EventPlansV2 \cup {UnknownPlanId}, id \in SubIds }
        \X {0} \X (0..2))
    \cup ({ UpgradeRequest("u1", PRO_YEARLY, Undef),
            UpgradeRequest(Undef, PRO_YEARLY, "sub_1") } \X {0} \X {0})
    \cup ({ UpgradeRequest("u1", PRO_YEARLY, "sub_1") } \X (1..2) \X {0})

\* the outcome o of a route becomes the state after the request
HandledV2(rq, o) ==
    /\ reqV2 = Idle
    /\ Len(o.docs) <= MaxDocs
    /\ tierV2' = o.docs
    /\ preV2' = tierV2
    /\ reqV2' = [r |-> rq, at |-> now]
    /\ respV2' = o.resp
    /\ fxV2' = Effects(o.reads, o.writes, o.gateway, 0, o.fault)
    /\ UNCHANGED <<now, varsV1>>

WebhookV2(rq, f, g, p) ==
    /\ rq.route = "webhook"
    /\ HandledV2(rq, POSTV2(tierV2, rq, now, f, g, p))

UpgradeSubscription(body, f, g) ==
    /\ body.route = "upgrade-subscription"
    /\ HandledV2(body, upgradeSubscriptionPOST(tierV2, body, now, f, g))

RespondV2 ==
    /\ reqV2 # Idle
    /\ reqV2' = Idle
    /\ preV2' = <<>>
    /\ respV2' = NoResponse
    /\ fxV2' = NoEffects
    /\ UNCHANGED <<tierV2, now, varsV1>>

NextV2 ==
    \/ \E d \in WebhookDeliveriesV2, p \in 1..2 : WebhookV2(d[1], d[2], d[3], p)
    \/ \E d \in UpgradeRequests : UpgradeSubscription(d[1], d[2], d[3])
    \/ RespondV2
    \/ Tick

InitSpecV2 == InitV1({NoDoc}) /\ InitV2

SpecV2 == InitSpecV2 /\ [][NextV2]_vars

(***************************************************************************)
(* Plan-change routes that write the record (SpecPlan): the upgrade route  *)
(* in its three earlier revisions, src/unnamed/part_003 lines 1-883,       *)
(* 884-1151 and 1152-1760, and the downgrade route,                        *)
(* src/app/api/downgrade-subscription/route.ts.  They go by the store of   *)
(* src/lib/firebase.ts.  f is the number of the store call that throws     *)
(* (1: the read of the record, 2: its update), g the number of the gateway *)
(* call that fails (0: none does), pay whether the gateway lists a         *)
(* captured payment of the old subscription.                               *)
(* These routes choose the flow by billing.payment_method of the record,   *)
(* and take the end of the period from billing.subscriptionEndDate when    *)
(* billing.currentPeriodEnd is absent, as it is in the records kept here.  *)
(* Fields that only stamp a write (transitionAt, lastPaymentAt,            *)
(* upgradeMethod, proratedInfo, cancelledAt) are left out.                 *)
(***************************************************************************)
\* a call of the gateway, the subscription it is about, and whether it succeeded
Attempt(op, sub, ok) == [op |-> op, sub |-> sub, ok |-> ok]

\* the creation of an invoice of `amount` for the subscription
InvoiceAttempt(sub, amount, ok) ==
    [op |-> "invoices.create", sub |-> sub, ok |-> ok, amount |-> amount]

AnyFailed(gateway) == \E i \in 1..Len(gateway) : ~gateway[i].ok

\* a request refused by validation: status 400 or 404, nothing called
PlanRefused(docs, status, error, reads) ==
    OutV2(ResV2(docs, FALSE, FALSE, <<>>, reads, 0), Response(status, error))

\* a request that ends in a catch block: status 500
PlanFailed(docs, error, gateway, reads) ==
    OutV2(ResV2(docs, TRUE, TRUE, gateway, reads, 0), Response(500, error))

\* a request that succeeds: status 200, the record updated by store call 2
PlanDone(docs, updates, gateway) ==
    OutV2(ResV2(updateUserTierV2(docs, updates), FALSE, AnyFailed(gateway), gateway, 2, 1),
          Response(200, "success"))

\* part_003 lines 729-756: Math.round(currentPlanAmount / totalDays * daysRemaining)
proratedCredit(currentTier, clock) ==
    LET billingEndDate == currentTier.subscriptionEndDate
        renewalPeriod == OrMonthly(currentTier.renewalPeriod)
        currentPlanDetails == getPlanDetails(getCurrentPlanId(currentTier.tier, renewalPeriod))
    IN  IF billingEndDate = NullDate THEN 0
        ELSE Round(currentPlanDetails.amount * getDaysRemainingInCycle(billingEndDate, clock),
                   getTotalDaysInCycle(renewalPeriod))

\* handleUPIUpgrade letting a failed invoice abort the request: the record is
\* not written and the answer is 500
handleUPIUpgradeAbortingOnInvoice(docs, currentSubscriptionId, newPlanDetails, currentTier, clock, f, g) ==
    LET newId == CreatedSubId(currentSubscriptionId)
        create == <<Attempt("subscriptions.create", newId, g # 1)>>
        invoice == IF proratedCredit(currentTier, clock) > 0
                     THEN <<Attempt("invoices.create", newId, g # 2)>>
                     ELSE <<>>
        updates == [razorpaySubscriptionId |-> newId, tier |-> newPlanDetails.tier,
                    renewalPeriod |-> newPlanDetails.renewalPeriod, targetPlanId |-> Null,
                    upgradeInProgress |-> F, status |-> "ACTIVE",
                    lastPaymentStatus |-> "PAID"]
    IN  IF g = 1 THEN PlanFailed(docs, "Failed to process UPI upgrade", create, 1)
        ELSE IF f = 2 \/ AnyFailed(invoice)
            THEN PlanFailed(docs, "Failed to process UPI upgrade", create \o invoice, 1)
            ELSE PlanDone(docs, updates, create \o invoice)

\* part_003 lines 712-883 (and, word for word, lines 1590-1760): create the
\* new subscription, create the discounted first invoice when a credit is
\* owed (its failure is caught), then update the record
handleUPIUpgrade(docs, currentSubscriptionId, newPlanDetails, currentTier, clock, f, g) ==
    LET newId == CreatedSubId(currentSubscriptionId)
        create == <<Attempt("subscriptions.create", newId, g # 1)>>
        proratedAmount == proratedCredit(currentTier, clock)
        discountedFirstPayment == Max(0, newPlanDetails.amount - proratedAmount)
        invoice == IF proratedAmount > 0
                     THEN <<InvoiceAttempt(newId, discountedFirstPayment, g # 2)>>
                     ELSE <<>>
        updates == [razorpaySubscriptionId |-> newId, tier |-> newPlanDetails.tier,
                    renewalPeriod |-> newPlanDetails.renewalPeriod, targetPlanId |-> Null,
                    upgradeInProgress |-> F, status |-> "ACTIVE",
                    lastPaymentStatus |-> "PAID"]
    IN  IF g = 1 THEN PlanFailed(docs, "Failed to process UPI upgrade", create, 1)
        ELSE IF f = 2
            THEN PlanFailed(docs, "Failed to process UPI upgrade", create \o invoice, 1)
            ELSE PlanDone(docs, updates, create \o invoice)

\* part_003 lines 634-709
handleNoSubscriptionIdUpgrade(docs, targetTier, targetRenewalPeriod, f, g) ==
    LET newId == CreatedSubId(Undef)
        create == <<Attempt("subscriptions.create", newId, g # 1)>>
        updates == [tier |-> targetTier, renewalPeriod |-> targetRenewalPeriod,
                    razorpaySubscriptionId |-> newId, upgradeInProgress |-> F,
                    status |-> "ACTIVE", lastPaymentStatus |-> "PAID"]
    IN  IF g = 1 \/ f = 2
            THEN PlanFailed(docs, "Failed to create new subscription for upgrade", create, 1)
            ELSE PlanDone(docs, updates, create)

\* part_003 lines 149-159
hasActiveSubscriptionOrId(currentTier) ==
    \/ Truthy(currentTier.razorpaySubscriptionId)
    \/ /\ currentTier.tier \in {"BASIC", "PRO"}
       /\ (currentTier.status = "ACTIVE" \/ ~Truthy(currentTier.status))
       /\ currentTier.isCancelled # T
       /\ currentTier.subscriptionHalted # T

\* part_003 lines 180-189
VALID_UPGRADES ==
    { <<Plan("BASIC", "MONTHLY"), Plan("PRO", "MONTHLY")>>,
      <<Plan("BASIC", "MONTHLY"), Plan("PRO", "ANNUAL")>>,
      <<Plan("BASIC", "ANNUAL"), Plan("PRO", "MONTHLY")>>,
      <<Plan("BASIC", "ANNUAL"), Plan("PRO", "ANNUAL")>>,
      <<Plan("BASIC", "MONTHLY"), Plan("BASIC", "ANNUAL")>>,
      <<Plan("PRO", "MONTHLY"), Plan("PRO", "ANNUAL")>> }

\* part_003 lines 192-197
isValidUpgrade(currentTierType, currentRenewalPeriod, targetTier, targetRenewalPeriod) ==
    <<Plan(currentTierType, currentRenewalPeriod),
      Plan(targetTier, targetRenewalPeriod)>> \in VALID_UPGRADES

\* part_003 lines 256-354: the in-place update of the subscription, then the
\* update of the record
cardUpgradeByTarget(docs, currentSubscriptionId, targetTier, targetRenewalPeriod, f, g) ==
    LET update == <<Attempt("subscriptions.update", currentSubscriptionId, g # 1)>>
        updates == [tier |-> targetTier, renewalPeriod |-> targetRenewalPeriod,
                    razorpaySubscriptionId |-> currentSubscriptionId,
                    upgradeInProgress |-> F, lastPaymentStatus |-> "PAID"]
    IN  IF g = 1 \/ f = 2
            THEN PlanFailed(docs, "Failed to upgrade subscription", update, 1)
            ELSE PlanDone(docs, updates, update)

\* POST of the upgrade route, part_003 lines 101-366
upgradeByTargetPOST(docs, body, clock, f, g) ==
    LET targetTier == body.targetTier
        targetRenewalPeriod == body.targetRenewalPeriod
        newPlanId == PlanIdOf(targetTier, targetRenewalPeriod)
        newPlanDetails == getPlanDetails(newPlanId)
        currentTier == getUserTierV2(docs)
        currentSubscriptionId == currentTier.razorpaySubscriptionId
    IN  IF ~(Truthy(body.username) /\ Truthy(targetTier) /\ Truthy(targetRenewalPeriod))
            THEN PlanRefused(docs, 400,
                             "username, targetTier, and targetRenewalPeriod are required", 0)
        ELSE IF newPlanId = Undef
            THEN PlanRefused(docs, 400, "Invalid targetTier. Must be BASIC or PRO", 0)
        ELSE IF newPlanDetails = NoPlan
            THEN PlanRefused(docs, 400, "Invalid target plan configuration", 0)
        ELSE IF f = 1 THEN PlanFailed(docs, "Failed to process upgrade", <<>>, 0)
        ELSE IF currentTier = NoDoc THEN PlanRefused(docs, 404, "User tier not found", 1)
        ELSE IF ~hasActiveSubscriptionOrId(currentTier)
            THEN PlanRefused(docs, 400, "No active subscription found to upgrade", 1)
        ELSE IF currentTier.tier = targetTier /\ currentTier.renewalPeriod = targetRenewalPeriod
            THEN PlanRefused(docs, 400, "User is already on this plan", 1)
        ELSE IF ~isValidUpgrade(currentTier.tier, currentTier.renewalPeriod,
                                targetTier, targetRenewalPeriod)
            THEN PlanRefused(docs, 400, "Invalid upgrade path", 1)
        ELSE IF currentTier.payment_method = "upi"
            THEN handleUPIUpgrade(docs, currentSubscriptionId, newPlanDetails, currentTier,
                                  clock, f, g)
        ELSE IF ~Truthy(currentSubscriptionId)
            THEN handleNoSubscriptionIdUpgrade(docs, targetTier, targetRenewalPeriod, f, g)
            ELSE cardUpgradeByTarget(docs, currentSubscriptionId, targetTier,
                                     targetRenewalPeriod, f, g)

\* the billing arithmetic the route of part_003 lines 884-1151 imports; a
\* billing cycle is 30 days there
getLastBillingDate(subscriptionEndDate) == subscriptionEndDate - 30

getDaysUsedInCycle(lastBillingDate, clock) == Max(0, clock - lastBillingDate)

calculateRefundAmount(paidAmount, daysUsed) ==
    IF 30 - daysUsed > 0 THEN Max(100, Round(paidAmount * (30 - daysUsed), 30)) ELSE 0

\* cancelUserSubscription of the store, as store call k: the record is marked
\* cancelled; an error of the store is caught and logged
cancelUserSubscription(docs, f, k) ==
    IF f = k \/ docs = <<>> THEN docs ELSE updateUserTierV2(docs, [isCancelled |-> T])

\* POST of the route of part_003 lines 910-1074: cancel the subscription,
\* refund the unused days of an upgrade (a failure is caught), create the new
\* subscription, mark the record cancelled
planChangePOST(docs, body, clock, f, g, pay) ==
    LET newPlanDetails == getPlanDetails(body.newPlanId)
        currentTier == getUserTierV2(docs)
        currentSubscriptionId == body.currentSubscriptionId
        currentPlanAmount == IF currentTier.tier = "BASIC" THEN 99900 ELSE 299900
        refundAmount ==
            IF body.changeType = "upgrade" /\ currentTier.subscriptionEndDate # NullDate
                THEN calculateRefundAmount(
                         currentPlanAmount,
                         getDaysUsedInCycle(getLastBillingDate(currentTier.subscriptionEndDate),
                                            clock))
                ELSE 0
        refunding == body.changeType = "upgrade" /\ refundAmount > 0
        cancel == <<Attempt("subscriptions.cancel", currentSubscriptionId, g # 1)>>
        payments == IF refunding
                      THEN <<Attempt("payments.all", currentSubscriptionId, g # 2)>>
                      ELSE <<>>
        refund == IF refunding /\ g # 2 /\ pay
                    THEN <<Attempt("payments.refund", currentSubscriptionId, g # 3)>>
                    ELSE <<>>
        swap == cancel \o payments \o refund
        create == <<Attempt("subscriptions.create", CreatedSubId(currentSubscriptionId),
                            g # Len(swap) + 1)>>
        marked == cancelUserSubscription(docs, f, 2)
    IN  IF ~(Truthy(body.username) /\ Truthy(body.newPlanId)
              /\ Truthy(currentSubscriptionId) /\ Truthy(body.changeType))
            THEN PlanRefused(docs, 400,
                     "username, newPlanId, currentSubscriptionId, and changeType are required", 0)
        ELSE IF body.changeType \notin {"upgrade", "downgrade"}
            THEN PlanRefused(docs, 400, "changeType must be either upgrade or downgrade", 0)
        ELSE IF newPlanDetails = NoPlan THEN PlanRefused(docs, 400, "Invalid newPlanId", 0)
        ELSE IF f = 1 THEN PlanFailed(docs, "Failed to process plan change", <<>>, 0)
        ELSE IF currentTier = NoDoc
                \/ currentTier.razorpaySubscriptionId # currentSubscriptionId
            THEN PlanRefused(docs, 404, "Current subscription not found or mismatch", 1)
        ELSE IF currentTier.tier = newPlanDetails.tier
            THEN PlanRefused(docs, 400, "User is already on this tier", 1)
        ELSE IF g = 1 THEN PlanFailed(docs, "Failed to process plan change", cancel, 1)
        ELSE IF g = Len(swap) + 1
            THEN PlanFailed(docs, "Failed to process plan change", swap \o create, 1)
        ELSE OutV2(ResV2(marked, FALSE, f = 2 \/ AnyFailed(swap), swap \o create,
                         2, IF f = 2 THEN 0 ELSE 1),
                   Response(200, "success"))

\* part_003 lines 1254-1302: the in-place update of the subscription, then the
\* update of the record
cardUpgradeByPlanId(docs, currentSubscriptionId, newPlanDetails, f, g) ==
    LET update == <<Attempt("subscriptions.update", currentSubscriptionId, g # 1)>>
        updates == [tier |-> newPlanDetails.tier,
                    renewalPeriod |-> newPlanDetails.renewalPeriod, targetPlanId |-> Null,
                    upgradeInProgress |-> F, lastPaymentStatus |-> "PAID"]
    IN  IF g = 1 \/ f = 2
            THEN PlanFailed(docs, "Failed to upgrade subscription", update, 1)
            ELSE PlanDone(docs, updates, update)

\* what the routes that take a plan id check first: part_003 lines 1193-1226,
\* downgrade-subscription/route.ts lines 42-75.  NoResponse: the request passes.
checkPlanIdRequest(docs, body, f, error) ==
    LET newPlanDetails == getPlanDetails(body.newPlanId)
        currentTier == getUserTierV2(docs)
    IN  IF ~(Truthy(body.username) /\ Truthy(body.newPlanId)
              /\ Truthy(body.currentSubscriptionId))
            THEN PlanRefused(docs, 400,
                             "username, newPlanId, and currentSubscriptionId are required", 0)
        ELSE IF newPlanDetails = NoPlan THEN PlanRefused(docs, 400, "Invalid newPlanId", 0)
        ELSE IF f = 1 THEN PlanFailed(docs, error, <<>>, 0)
        ELSE IF currentTier = NoDoc
                \/ currentTier.razorpaySubscriptionId # body.currentSubscriptionId
            THEN PlanRefused(docs, 404, "Current subscription not found or mismatch", 1)
        ELSE IF currentTier.tier = newPlanDetails.tier
            THEN PlanRefused(docs, 400, "User is already on this tier", 1)
        ELSE NoResponse

\* POST of the upgrade route, part_003 lines 1187-1314
upgradeByPlanIdPOST(docs, body, clock, f, g) ==
    LET newPlanDetails == getPlanDetails(body.newPlanId)
        currentTier == getUserTierV2(docs)
        refused == checkPlanIdRequest(docs, body, f, "Failed to process upgrade")
    IN  IF refused # NoResponse THEN refused
        ELSE IF currentTier.payment_method = "upi"
            THEN handleUPIUpgrade(docs, body.currentSubscriptionId, newPlanDetails,
                                  currentTier, clock, f, g)
            ELSE cardUpgradeByPlanId(docs, body.currentSubscriptionId, newPlanDetails, f, g)

\* downgrade-subscription/route.ts lines 182-209
downgradeRefundAmount(currentTier, newPlanDetails, clock) ==
    LET billingEndDate == currentTier.subscriptionEndDate
        renewalPeriod == OrMonthly(currentTier.renewalPeriod)
        currentPlanDetails == getPlanDetails(getCurrentPlanId(currentTier.tier, renewalPeriod))
        difference == currentPlanDetails.amount - newPlanDetails.amount
    IN  IF billingEndDate # NullDate /\ difference > 0
            THEN Round(difference * getDaysRemainingInCycle(billingEndDate, clock),
                       getTotalDaysInCycle(renewalPeriod))
            ELSE 0

\* downgrade-subscription/route.ts lines 164-324: fetch the subscription,
\* cancel it, create the new one, refund the difference (a failure is caught
\* and logged), then update the record
handleUPIDowngrade(docs, currentSubscriptionId, newPlanDetails, currentTier, clock, f, g, pay) ==
    LET newId == CreatedSubId(currentSubscriptionId)
        fetch == <<Attempt("subscriptions.fetch", currentSubscriptionId, g # 1)>>
        cancel == <<Attempt("subscriptions.cancel", currentSubscriptionId, g # 2)>>
        create == <<Attempt("subscriptions.create", newId, g # 3)>>
        refunding == downgradeRefundAmount(currentTier, newPlanDetails, clock) > 0
        payments == IF refunding
                      THEN <<Attempt("subscriptions.payments", currentSubscriptionId, g # 4)>>
                      ELSE <<>>
        refund == IF refunding /\ g # 4 /\ pay
                    THEN <<Attempt("payments.refund", currentSubscriptionId, g # 5)>>
                    ELSE <<>>
        gateway == fetch \o cancel \o create \o payments \o refund
        updates == [razorpaySubscriptionId |-> newId, tier |-> newPlanDetails.tier,
                    renewalPeriod |-> newPlanDetails.renewalPeriod, targetPlanId |-> Null,
                    upgradeInProgress |-> F, status |-> "ACTIVE",
                    lastPaymentStatus |-> "PAID"]
    IN  IF g = 1 THEN PlanFailed(docs, "Failed to process UPI downgrade", fetch, 1)
        ELSE IF g = 2
            THEN PlanFailed(docs, "Failed to process UPI downgrade", fetch \o cancel, 1)
        ELSE IF g = 3
            THEN PlanFailed(docs, "Failed to process UPI downgrade",
                            fetch \o cancel \o create, 1)
        ELSE IF f = 2 THEN PlanFailed(docs, "Failed to process UPI downgrade", gateway, 1)
        ELSE PlanDone(docs, updates, gateway)

\* downgrade-subscription/route.ts lines 100-149: the in-place update of the
\* subscription, then the record notes the plan it is moving to
cardDowngrade(docs, currentSubscriptionId, newPlanId, f, g) ==
    LET update == <<Attempt("subscriptions.update", currentSubscriptionId, g # 1)>>
        updates == [targetPlanId |-> newPlanId, upgradeInProgress |-> T]
    IN  IF g = 1 \/ f = 2
            THEN PlanFailed(docs, "Failed to schedule downgrade", update, 1)
            ELSE PlanDone(docs, updates, update)

\* POST of the downgrade route, downgrade-subscription/route.ts lines 36-161
downgradePOST(docs, body, clock, f, g, pay) ==
    LET newPlanDetails == getPlanDetails(body.newPlanId)
        currentTier == getUserTierV2(docs)
        refused == checkPlanIdRequest(docs, body, f, "Failed to process downgrade")
    IN  IF refused # NoResponse THEN refused
        ELSE IF currentTier.payment_method = "upi"
            THEN handleUPIDowngrade(docs, body.currentSubscriptionId, newPlanDetails,
                                    currentTier, clock, f, g, pay)
            ELSE cardDowngrade(docs, body.currentSubscriptionId, body.newPlanId, f, g)

(***************************************************************************)
(* Requests and state machine of SpecPlan.  The store starts with no       *)
(* record, or with one the webhook route has written: that of an activated *)
(* subscription (tier and period of its plan, a period end a month or a    *)
(* year ahead, its id) or that of a cancelled one (id and period end       *)
(* cleared).  billing.payment_method is the field of the gateway's         *)
(* subscription entity by which these routes choose the flow; it is absent *)
(* or "upi".                                                               *)
(***************************************************************************)
RecordPlans == {BASIC_MONTHLY, PRO_MONTHLY, BASIC_YEARLY}
PaymentMethodsPlan == {Undef, "upi"}

ActivatedRecord(planId, id, pm) ==
    LET planDetails == getPlanDetails(planId)
    IN  [TierEntityV2(planDetails.tier, planDetails.renewalPeriod,
                      nextBillingDate(1, planDetails.renewalPeriod), id)
            EXCEPT !.payment_method = pm]

CancelledRecord(planId, pm) ==
    [ActivatedRecord(planId, Undef, pm) EXCEPT !.subscriptionEndDate = NullDate]

PlanInitStores ==
    { <<>> }
    \cup { <<ActivatedRecord(pl, "sub_1", pm)>> : pl \in RecordPlans, pm \in PaymentMethodsPlan }
    \cup { <<CancelledRecord(BASIC_MONTHLY, pm)>> : pm \in PaymentMethodsPlan }

\* one call failing at a time: <<f, g>> with the store call f or the gateway call g
OneFault(maxG) == {<<0, 0>>, <<1, 0>>, <<2, 0>>} \cup { <<0, g>> : g \in 1..maxG }

TargetRequest(username, targetTier, targetRenewalPeriod) ==
    [route |-> "upgrade-by-target", username |-> username, targetTier |-> targetTier,
     targetRenewalPeriod |-> targetRenewalPeriod]

\* requests <<body, <<f, g>>>>
TargetRequests ==
    ({ TargetRequest("u1", t, rp) : t \in {"BASIC", "PRO"}, rp \in {"MONTHLY", "ANNUAL"} }
        \X OneFault(2))
    \cup ({ TargetRequest("u1", "GOLD", "MONTHLY"), TargetRequest(Undef, "PRO", "MONTHLY") }
        \X {<<0, 0>>})

PlanIdRequest(route, username, newPlanId, currentSubscriptionId, changeType) ==
    [route |-> route, username |-> username, newPlanId |-> newPlanId,
     currentSubscriptionId |-> currentSubscriptionId, changeType |-> changeType]

RequestPlans == {BASIC_MONTHLY, PRO_MONTHLY, PRO_YEARLY}

\* requests <<body, <<f, g>>, pay>> of the route `route`, the gateway making
\* up to maxG calls
PlanIdRequests(route, changeTypes, maxG) ==
    ({ PlanIdRequest(route, "u1", pl, id, ct) :
         pl \in RequestPlans, id \in SubIds, ct \in changeTypes }
        \X OneFault(maxG) \X BOOLEAN)
    \cup (({ PlanIdRequest(route, "u1", UnknownPlanId, "sub_1", ct) : ct \in changeTypes }
            \cup { PlanIdRequest(route, Undef, PRO_MONTHLY, "sub_1", ct) : ct \in changeTypes })
        \X {<<0, 0>>} \X {TRUE})

UpgradeByTarget(body, f, g) ==
    /\ body.route = "upgrade-by-target"
    /\ HandledV2(body, upgradeByTargetPOST(tierV2, body, now, f, g))

PlanChange(body, f, g, pay) ==
    /\ body.route = "plan-change"
    /\ HandledV2(body, planChangePOST(tierV2, body, now, f, g, pay))

UpgradeByPlanId(body, f, g) ==
    /\ body.route = "upgrade-by-plan-id"
    /\ HandledV2(body, upgradeByPlanIdPOST(tierV2, body, now, f, g))

Downgrade(body, f, g, pay) ==
    /\ body.route = "downgrade-subscription"
    /\ HandledV2(body, downgradePOST(tierV2, body, now, f, g, pay))

NextPlan ==
    \/ \E d \in TargetRequests : UpgradeByTarget(d[1], d[2][1], d[2][2])
    \/ \E d \in PlanIdRequests("plan-change", {"upgrade", "downgrade", "switch"}, 4) :
            PlanChange(d[1], d[2][1], d[2][2], d[3])
    \/ \E d \in PlanIdRequests("upgrade-by-plan-id", {Undef}, 2) :
            UpgradeByPlanId(d[1], d[2][1], d[2][2])
    \/ \E d \in PlanIdRequests("downgrade-subscription", {Undef}, 5) :
            Downgrade(d[1], d[2][1], d[2][2], d[3])
    \/ RespondV2

InitSpecPlan ==
    /\ InitV1({NoDoc})
    /\ tierV2 \in PlanInitStores
    /\ reqV2 = Idle
    /\ preV2 = <<>>
    /\ respV2 = NoResponse
    /\ fxV2 = NoEffects

SpecPlan == InitSpecPlan /\ [][NextPlan]_vars

(***************************************************************************)
(* Properties of the webhook route (Spec).                                 *)
(***************************************************************************)
\* the last request was a webhook request / one whose signature verified
WebhookHandled == req.r.route = "webhook"
VerifiedHandled == WebhookHandled /\ req.r.signature = "hmac_of_body"

\* the case labels of the route's switch
SwitchCases == {"subscription.activated", "subscription.completed", "subscription.charged",
                "subscription.authenticated", "subscription.resumed",
                "subscription.cancelled", "subscription.pending", "subscription.updated"}

\* C7: a webhook request whose signature is missing or does not match is
\* rejected with an error status, and causes no record read or write, no
\* gateway call and no confirmation.
C7_UnverifiedRejectedWithoutEffect ==
    (WebhookHandled /\ req.r.signature # "hmac_of_body") =>
        /\ resp.status >= 400
        /\ store = pre
        /\ fx.reads = 0
        /\ fx.writes = 0
        /\ fx.gateway = <<>>
        /\ fx.confirmations = 0

\* a forged activation event for a user with a record of tier TRIAL was rejected
C7_Witness ==
    /\ WebhookHandled
    /\ req.r.signature = "forged"
    /\ req.r.body = "json"
    /\ req.r.event = "subscription.activated"
    /\ pre # NoDoc
    /\ pre.tier = "TRIAL"
    /\ resp = Response(400, "Invalid signature")

\* a verified event the route cannot apply
Inapplicable(rq) ==
    \/ rq.body # "json"
    \/ rq.event \notin SwitchCases
    \/ rq.subscription.userId = Undef
    \/ rq.subscription.plan_id \notin {BASIC_MONTHLY, PRO_MONTHLY, BASIC_YEARLY, PRO_YEARLY}

\* C8: a verified event that cannot be applied (unknown event type, missing
\* user id in the notes, unknown plan id, unparseable payload) leaves the
\* record unchanged, triggers no confirmation and is acknowledged with success.
C8_InapplicableEventDropped ==
    (VerifiedHandled /\ Inapplicable(req.r)) =>
        /\ store = pre
        /\ fx.writes = 0
        /\ fx.confirmations = 0
        /\ resp.status = 200

\* a verified activation event with an unknown plan id, for a user with a
\* record, was dropped
C8_Witness ==
    /\ VerifiedHandled
    /\ req.r.body = "json"
    /\ req.r.event = "subscription.activated"
    /\ req.r.subscription.userId = "u1"
    /\ req.r.subscription.plan_id = UnknownPlanId
    /\ pre # NoDoc
    /\ store = pre
    /\ resp.status = 200

\* a dispatched event of the given type was handled with no store call failing
Applied(eventType) ==
    /\ VerifiedHandled
    /\ ~Inapplicable(req.r)
    /\ req.r.event = eventType
    /\ ~fx.fault

\* C5: given a record whose period end is in the future, a
\* subscription.cancelled event with ended_at unset or in the future leaves
\* the tier unchanged and marks the record cancelled; a second
\* subscription.cancelled event with ended_at in the past then sets the tier
\* to NONE.
C5_CancellationGrace ==
    /\ ( /\ Applied("subscription.cancelled")
         /\ pre # NoDoc
         /\ BDate(pre, "subscriptionEndDate") > req.at
         /\ (req.r.subscription.ended_at = 0 \/ req.r.subscription.ended_at > req.at) )
        => /\ store.tier = pre.tier
           /\ BField(store, "isCancelled") = T
    /\ ( /\ Applied("subscription.cancelled")
         /\ pre # NoDoc
         /\ BField(pre, "isCancelled") = T
         /\ req.r.subscription.ended_at # 0
         /\ req.r.subscription.ended_at < req.at )
        => store.tier = "NONE"

\* a paid record cancelled within its period (tier kept, marked cancelled)
\* has received the second cancellation event, ended_at past, and is on NONE
C5_Witness ==
    /\ Applied("subscription.cancelled")
    /\ pre # NoDoc
    /\ pre.tier \in {"BASIC", "PRO"}
    /\ BField(pre, "isCancelled") = T
    /\ BDate(pre, "subscriptionEndDate") >= 2
    /\ req.r.subscription.ended_at # 0
    /\ req.r.subscription.ended_at < req.at
    /\ store.tier = "NONE"

\* the record with the time stamps the handlers set at each write left out
\* (updatedAt is not modelled; cancellationDate is the clock at the write)
StripStamps(doc) ==
    IF doc = NoDoc \/ doc.billing = NoBilling
        THEN doc
        ELSE [doc EXCEPT !.billing.cancellationDate = NullDate]

\* the end of service an event announces has come at time t
EndOfServiceReached(rq, t) ==
    rq.subscription.ended_at # 0 /\ rq.subscription.ended_at <= t

\* C1 as stated: for any verified event E and any starting record, applying
\* E twice in a row yields the same final record as applying it once (write
\* time stamps aside).
C1_AppliedTwiceSameRecord ==
    seq.again => StripStamps(store) = StripStamps(pre)

\* C1 amended: applying E twice in a row yields the same final record as
\* applying it once (write time stamps aside), unless E is a cancellation
\* whose end of service (ended_at) is reached between the two applications.
C1_AppliedTwiceSameRecordWithinService ==
    ( /\ seq.again
      /\ ( req.r.event = "subscription.cancelled" =>
              ( EndOfServiceReached(req.r, req.at - seq.dt)
                <=> EndOfServiceReached(req.r, req.at) ) ) )
        => StripStamps(store) = StripStamps(pre)

\* an activation event was applied a second time, later than the first, to
\* the paid record its first application left, confirmation flag set
C1_Witness ==
    /\ seq.again
    /\ seq.dt = 1
    /\ req.r.event = "subscription.activated"
    /\ pre # NoDoc
    /\ pre.tier = "PRO"
    /\ BField(pre, "razorpaySubscriptionId") = req.r.subscription.id
    /\ BField(pre, "isConfirmationSent") = T
    /\ store = pre

\* C2: across any sequence of subscription.activated / charged / completed /
\* resumed events of one subscription lifetime, the confirmation is issued at
\* most once, and the record's isConfirmationSent is true once it was issued.
C2_ConfirmationAtMostOnce ==
    /\ life.conf <= 1
    /\ (life.conf >= 1 /\ req # Idle) => BField(store, "isConfirmationSent") = T

\* C3: across subscription.charged / subscription.updated events for the
\* subscription id the record holds, the stored period end never decreases.
C3_PeriodEndNeverDecreases ==
    ( /\ (Applied("subscription.charged") \/ Applied("subscription.updated"))
      /\ pre # NoDoc
      /\ BField(pre, "razorpaySubscriptionId") = req.r.subscription.id )
        => BDate(store, "subscriptionEndDate") >= BDate(pre, "subscriptionEndDate")

(***************************************************************************)
(* Properties of the plan-change route (Spec).                             *)
(***************************************************************************)
\* the last request was a plan-change request, and the read of the record
\* did not throw
PlanChangeHandled == req.r.route = "change-plan" /\ ~(fx.fault /\ fx.reads = 0)

\* the request names a target tier and period
WellFormed(body) ==
    /\ body.username # Undef
    /\ body.targetTier # Undef
    /\ body.targetRenewalPeriod # Undef

\* the record holds a subscription that can be changed
ActiveRecord(doc) ==
    /\ doc # NoDoc
    /\ doc.billing # NoBilling
    /\ doc.billing.razorpaySubscriptionId \in SubIds
    /\ doc.billing.isCancelled # T
    /\ doc.tier \in {"BASIC", "PRO"}

\* the request asks for the tier and renewal period the record is on
TargetIsCurrent(body, doc) ==
    /\ WellFormed(body)
    /\ doc # NoDoc
    /\ doc.billing # NoBilling
    /\ body.targetTier = doc.tier
    /\ body.targetRenewalPeriod = doc.billing.renewalPeriod

InvalidChange(body, doc) ==
    \/ ~WellFormed(body)
    \/ body.targetTier \notin {"BASIC", "PRO"}
    \/ body.targetRenewalPeriod \notin {"MONTHLY", "ANNUAL"}
    \/ ~ActiveRecord(doc)
    \/ TargetIsCurrent(body, doc)

\* C10: every plan-change request rejected by validation (unknown target
\* plan, no record, no active subscription, invalid transition) makes no
\* gateway call and leaves the record unchanged.
C10_RejectedWithoutEffect ==
    (PlanChangeHandled /\ InvalidChange(req.r, pre)) =>
        /\ resp.status \in {400, 404}
        /\ fx.gateway = <<>>
        /\ fx.writes = 0
        /\ store = pre

\* a user on an active subscription paid by UPI asked for a renewal period
\* that is no transition of the table
C10_Witness ==
    /\ PlanChangeHandled
    /\ ActiveRecord(pre)
    /\ pre.billing.paymentMethod = "upi"
    /\ req.r.targetTier = "PRO"
    /\ req.r.targetRenewalPeriod = "WEEKLY"
    /\ resp = Response(400, "Invalid plan change")
    /\ fx.gateway = <<>>

(***************************************************************************)
(* Properties of the webhook route of lines 399-773 (SpecV2).              *)
(***************************************************************************)
\* C4: at all times at most one record exists per user: an activation event
\* for a user who already has a record (a redelivered activation included)
\* updates that record and never adds a second one.
C4_AtMostOneRecordPerUser ==
    Len(tierV2) <= 1

\* C6: once signature verification has passed, the webhook entry point
\* returns a success acknowledgement for every event, also when a store or
\* gateway call inside a handler throws; no error status reaches the
\* transport.  Stated for the events whose payload parses.
C6_VerifiedAlwaysAcknowledged ==
    ( /\ reqV2.r.route = "webhook"
      /\ reqV2.r.signature = "hmac_of_body"
      /\ reqV2.r.body = "json" )
        => respV2.status = 200

(***************************************************************************)
(* Properties of the plan-change routes that write the record (SpecPlan).  *)
(***************************************************************************)
\* the last request was a plan-change request to one of these routes
PlanRouteHandled ==
    reqV2.r.route \in {"upgrade-by-target", "plan-change", "upgrade-by-plan-id",
                       "downgrade-subscription"}

\* the request went the card / non-mandate flow: the in-place update of the
\* subscription at the gateway
CardFlow ==
    /\ PlanRouteHandled
    /\ fxV2.gateway # <<>>
    /\ fxV2.gateway[1].op = "subscriptions.update"

\* tier, renewal period, period end and gateway subscription id of the record
RecordCore(docs) ==
    LET doc == getUserTierV2(docs)
    IN  <<doc.tier, doc.renewalPeriod, doc.subscriptionEndDate, doc.razorpaySubscriptionId>>

\* C11: in the card / non-mandate flow a plan-change request does not mutate
\* the record: tier, renewal period, period bounds and gateway subscription
\* id are the same when the request returns as before it, whether the
\* gateway update succeeded or failed.
C11_CardFlowLeavesRecord ==
    CardFlow => RecordCore(tierV2) = RecordCore(preV2)

\* C12: in the mandate-based (UPI) flow the new gateway subscription is
\* created before the old one is cancelled, and the old subscription is
\* never cancelled unless creation of the new one has succeeded: every
\* cancellation a plan-change request attempts comes after a successful
\* creation in the same request.
C12_CreateBeforeCancel ==
    PlanRouteHandled =>
        \A i \in 1..Len(fxV2.gateway) :
            fxV2.gateway[i].op = "subscriptions.cancel" =>
                \E j \in 1..(i - 1) :
                    /\ fxV2.gateway[j].op = "subscriptions.create"
                    /\ fxV2.gateway[j].ok

\* a plan-change request of a record paid by mandate (UPI) and holding a
\* gateway subscription that created the replacement subscription and was
\* answered with success
MandateFlowDone ==
    /\ PlanRouteHandled
    /\ respV2.status = 200
    /\ getUserTierV2(preV2).payment_method = "upi"
    /\ Truthy(getUserTierV2(preV2).razorpaySubscriptionId)
    /\ \E i \in 1..Len(fxV2.gateway) :
            fxV2.gateway[i].op = "subscriptions.create" /\ fxV2.gateway[i].ok

\* the id of the subscription the request created
CreatedByRequest ==
    LET i == CHOOSE i \in 1..Len(fxV2.gateway) : fxV2.gateway[i].op = "subscriptions.create"
    IN  fxV2.gateway[i].sub

\* C13: after a successful mandate-flow (UPI) plan-change request the
\* record's gateway subscription id equals the newly created subscription's
\* id and targetPlanId is cleared, while tier is unchanged (it changes only
\* when the activated / authenticated webhook is applied).
C13_MandateFlowKeepsTier ==
    MandateFlowDone =>
        /\ getUserTierV2(tierV2).razorpaySubscriptionId = CreatedByRequest
        /\ getUserTierV2(tierV2).targetPlanId = Null
        /\ getUserTierV2(tierV2).tier = getUserTierV2(preV2).tier

(***************************************************************************)
(* Failure of the first gateway call of a plan-change request (Spec).      *)
(***************************************************************************)
\* the only gateway call the request made is one that failed
FirstGatewayCallFailed ==
    /\ req.r.route = "change-plan"
    /\ fx.fault
    /\ Len(fx.gateway) = 1

\* C14: if the first gateway call of a plan-change flow fails, the request
\* returns an error and the record is left exactly as it was before the
\* request.
C14_FirstGatewayFailureAborts ==
    FirstGatewayCallFailed =>
        /\ resp.status >= 400
        /\ resp.body # "success"
        /\ store = pre
        /\ fx.writes = 0

\* the creation of the replacement subscription failed for a record paid by
\* mandate that holds a gateway subscription: the request answers 500
C14_Witness ==
    /\ FirstGatewayCallFailed
    /\ fx.gateway[1].op = "subscriptions.create"
    /\ BField(getUserTier(store), "paymentMethod") = "upi"
    /\ Truthy(BField(getUserTier(store), "razorpaySubscriptionId"))
    /\ resp.status = 500

MoneyOps == {"invoices.create", "subscriptions.payments", "payments.all", "payments.refund"}

\* the request created the replacement subscription and a later refund or
\* invoice call of the same request failed
MoneyStepFailedAfterSwap ==
    /\ PlanRouteHandled
    /\ \E j \in 1..Len(fxV2.gateway) :
            /\ fxV2.gateway[j].op = "subscriptions.create"
            /\ fxV2.gateway[j].ok
            /\ \E i \in (j + 1)..Len(fxV2.gateway) :
                    fxV2.gateway[i].op \in MoneyOps /\ ~fxV2.gateway[i].ok

\* C15: if a later money-movement step (refund or discounted invoice) fails
\* after the subscription swap has succeeded, the operation still reports
\* success, the record update for the swap is committed (the record holds
\* the id of the new subscription) and the swap is not rolled back (the new
\* subscription is not cancelled).
C15_MoneyFailureKeepsSwap ==
    MoneyStepFailedAfterSwap =>
        /\ respV2.status = 200
        /\ fxV2.writes = 1
        /\ getUserTierV2(tierV2).razorpaySubscriptionId = CreatedByRequest
        /\ getUserTierV2(preV2).razorpaySubscriptionId # CreatedByRequest
        /\ \A k \in 1..Len(fxV2.gateway) :
                ~(fxV2.gateway[k].op = "subscriptions.cancel"
                  /\ fxV2.gateway[k].sub = CreatedByRequest)

\* the discounted invoice of a mandate-flow upgrade failed
C15_Witness ==
    /\ MoneyStepFailedAfterSwap
    /\ reqV2.r.route = "upgrade-by-target"
    /\ Len(fxV2.gateway) = 2
    /\ fxV2.gateway[2].op = "invoices.create"
    /\ fxV2.gateway[2].sub = CreatedByRequest
    /\ ~fxV2.gateway[2].ok
    /\ getUserTierV2(tierV2).razorpaySubscriptionId = CreatedByRequest

\* the refund of a mandate-flow downgrade failed
C15_RefundFailed ==
    /\ MoneyStepFailedAfterSwap
    /\ reqV2.r.route = "downgrade-subscription"
    /\ ~fxV2.gateway[Len(fxV2.gateway)].ok
    /\ fxV2.gateway[Len(fxV2.gateway)].op = "payments.refund"

(***************************************************************************)
(* Events applied by the webhook route of lines 399-773 (SpecV2).          *)
(***************************************************************************)
\* the last request was a verified webhook delivery of this event type whose
\* payload parses and which was answered with 200
EventApplied(event) ==
    /\ reqV2.r.route = "webhook"
    /\ reqV2.r.signature = expectedSignature
    /\ reqV2.r.body = "json"
    /\ reqV2.r.event = event
    /\ respV2.status = 200

\* before the event the record waited for the subscription id to replace the
\* subscription it holds
PendingSwapTo(id) ==
    /\ preV2 # <<>>
    /\ getUserTierV2(preV2).newSubscriptionId = id
    /\ Truthy(getUserTierV2(preV2).razorpaySubscriptionId)
    /\ getUserTierV2(preV2).razorpaySubscriptionId # id

\* the handler asked the gateway to cancel the subscription the record held
OldCancelled ==
    \E i \in 1..Len(fxV2.gateway) :
        /\ fxV2.gateway[i].op = "subscriptions.cancel"
        /\ fxV2.gateway[i].sub = getUserTierV2(preV2).razorpaySubscriptionId

\* C16: during a mandate-flow plan change, once subscription.authenticated
\* for the new subscription has been applied, the old subscription has been
\* cancelled at the gateway and the record's gateway subscription id is the
\* new id, so that the user does not hold two live gateway subscriptions
\* from that point on.
C16_AuthenticatedSwaps ==
    ( /\ EventApplied("subscription.authenticated")
      /\ PendingSwapTo(reqV2.r.entity.id) )
        => /\ OldCancelled
           /\ getUserTierV2(tierV2).razorpaySubscriptionId = reqV2.r.entity.id

\* C17: when subscription.activated arrives for the subscription id that the
\* record holds as its pending new subscription, the superseded old gateway
\* subscription is cancelled before the record is written, and the written
\* record carries the new subscription id, the event plan's tier and
\* upgradeInProgress = false.  The event carries the notes the upgrade route
\* gave the subscription (isUpgrade 'true', a known plan).
C17_ActivatedCancelsThenWrites ==
    ( /\ EventApplied("subscription.activated")
      /\ reqV2.r.entity.isUpgrade = "true"
      /\ getPlanDetails(reqV2.r.entity.planId) # NoPlan
      /\ PendingSwapTo(reqV2.r.entity.id) )
        => /\ OldCancelled
           /\ ~fxV2.fault
           /\ getUserTierV2(tierV2).razorpaySubscriptionId = reqV2.r.entity.id
           /\ getUserTierV2(tierV2).tier = getPlanDetails(reqV2.r.entity.planId).tier
           /\ getUserTierV2(tierV2).upgradeInProgress = F

\* the same activation when the gateway accepted the cancellation: the
\* cancellation was requested and the record is written as C17 says
C17_HoldsWhenCancelSucceeds ==
    ( /\ EventApplied("subscription.activated")
      /\ reqV2.r.entity.isUpgrade = "true"
      /\ getPlanDetails(reqV2.r.entity.planId) # NoPlan
      /\ PendingSwapTo(reqV2.r.entity.id)
      /\ ~fxV2.fault )
        => /\ OldCancelled
           /\ getUserTierV2(tierV2).razorpaySubscriptionId = reqV2.r.entity.id
           /\ getUserTierV2(tierV2).tier = getPlanDetails(reqV2.r.entity.planId).tier
           /\ getUserTierV2(tierV2).upgradeInProgress = F

\* the last request was a verified payment.captured for a prorated upgrade
\* payment (notes.type 'prorated_upgrade' with a user name)
ProratedPaymentCaptured ==
    /\ reqV2.r.route = "webhook"
    /\ reqV2.r.signature = expectedSignature
    /\ reqV2.r.body = "json"
    /\ reqV2.r.event = "payment.captured"
    /\ reqV2.r.entity.type = "prorated_upgrade"
    /\ Truthy(reqV2.r.entity.username)

\* before the event the record had an upgrade in progress whose prorated
\* order is the one the payment names
OrderMatches ==
    /\ preV2 # <<>>
    /\ getUserTierV2(preV2).upgradeInProgress = T
    /\ getUserTierV2(preV2).proratedOrderId = reqV2.r.entity.orderId

\* C18: payment.captured for a one-off prorated upgrade payment switches the
\* tier to the pending target plan's tier and clears upgradeInProgress only
\* when the record has upgradeInProgress set and its recorded prorated order
\* id equals the payment's order id (and then it does, unless the store
\* call fails); in every other case the record is unchanged.
C18_ProratedPaymentFinalizes ==
    ProratedPaymentCaptured =>
        /\ ~OrderMatches => tierV2 = preV2
        /\ tierV2 # preV2 =>
            /\ getUserTierV2(tierV2) =
                  [getUserTierV2(preV2) EXCEPT
                      !.tier = getPlanDetails(getUserTierV2(preV2).newPlanId).tier,
                      !.upgradeInProgress = F,
                      !.proratedPaid = T]
            /\ Tail(tierV2) = Tail(preV2)
        /\ (OrderMatches /\ ~fxV2.fault) =>
            /\ getUserTierV2(tierV2).tier =
                  getPlanDetails(getUserTierV2(preV2).newPlanId).tier
            /\ getUserTierV2(tierV2).upgradeInProgress = F

\* the payment of the recorded order moved the record from BASIC to PRO
C18_Witness ==
    /\ ProratedPaymentCaptured
    /\ OrderMatches
    /\ getUserTierV2(preV2).tier = "BASIC"
    /\ getUserTierV2(tierV2).tier = "PRO"
    /\ getUserTierV2(tierV2).upgradeInProgress = F

\* a payment of another order reached a record with an upgrade in progress
C18_OtherOrder ==
    /\ ProratedPaymentCaptured
    /\ preV2 # <<>>
    /\ getUserTierV2(preV2).upgradeInProgress = T
    /\ getUserTierV2(preV2).proratedOrderId # reqV2.r.entity.orderId
    /\ tierV2 = preV2

\* the record shows a failed payment: billing.lastPaymentStatus FAILED, or the
\* older flag billing.paymentFailed that the billing view reads as FAILED
ShowsPaymentFailed(doc) == doc.lastPaymentStatus = "FAILED" \/ doc.paymentFailed = T

\* the record shows a halted subscription: billing.status HALTED, or the
\* older flag billing.subscriptionHalted that the billing view reads as HALTED
ShowsHalted(doc) == doc.status = "HALTED" \/ doc.subscriptionHalted = T

\* C19: applying subscription.halted sets tier to NONE immediately and marks
\* the record status HALTED with lastPaymentStatus FAILED.
C19_HaltedDowngrades ==
    ( /\ EventApplied("subscription.halted")
      /\ Truthy(reqV2.r.entity.userId)
      /\ preV2 # <<>> )
        => /\ getUserTierV2(tierV2).tier = "NONE"
           /\ ShowsHalted(getUserTierV2(tierV2))
           /\ ShowsPaymentFailed(getUserTierV2(tierV2))

\* C20: applying payment.failed sets lastPaymentStatus to FAILED (and
\* lastPaymentAt to now) and leaves tier unchanged.
C20_PaymentFailedRecorded ==
    ( /\ EventApplied("payment.failed")
      /\ Truthy(reqV2.r.entity.userId)
      /\ preV2 # <<>> )
        => /\ ShowsPaymentFailed(getUserTierV2(tierV2))
           /\ getUserTierV2(tierV2).tier = getUserTierV2(preV2).tier

(***************************************************************************)
(* Reachable records of the webhook route of lines 1-398 (Spec).           *)
(***************************************************************************)
\* the plan the last event names
EventPlan == getPlanDetails(req.r.subscription.plan_id)

\* C21: when subscription.activated is applied for a user who has no record
\* yet, a record is created for that user carrying the event plan's tier and
\* billing period.
C21_ActivationCreatesRecord ==
    (Applied("subscription.activated") /\ pre = NoDoc) =>
        /\ store # NoDoc
        /\ store.tier = EventPlan.tier
        /\ BField(store, "renewalPeriod") = EventPlan.renewalPeriod
        /\ BDate(store, "subscriptionEndDate") = req.r.subscription.current_end

C22_ResetWitness ==
    /\ Applied("subscription.cancelled")
    /\ BField(pre, "isConfirmationSent") = T
    /\ req.r.subscription.ended_at # 0
    /\ req.r.subscription.ended_at <= req.at
    /\ BField(store, "isConfirmationSent") = F

(***************************************************************************)
(* Reachable records of the plan-change routes (SpecPlan).                 *)
(***************************************************************************)
\* C23: in every reachable record state, a record marked cancelled
\* (isCancelled true) has no gateway subscription id attached.
C23_CancelledHasNoSubscriptionId ==
    ( /\ tierV2 # <<>>
      /\ getUserTierV2(tierV2).isCancelled = T )
        => ~Truthy(getUserTierV2(tierV2).razorpaySubscriptionId)

(***************************************************************************)
(* Tier and billing of the reachable records.                              *)
(***************************************************************************)
PaidTiers == {"BASIC", "PRO"}

\* C24: in every reachable record state, a record whose tier is BASIC or PRO
\* has its billing present and billing.renewalPeriod set (not null).
C24_PaidTierHasRenewalPeriod ==
    (store # NoDoc /\ store.tier \in PaidTiers) =>
        /\ store.billing # NoBilling
        /\ store.billing.renewalPeriod \in {"MONTHLY", "ANNUAL"}

\* the same of the records of the webhook route of lines 399-773
C24_PaidTierHasRenewalPeriodV2 ==
    (tierV2 # <<>> /\ getUserTierV2(tierV2).tier \in PaidTiers) =>
        getUserTierV2(tierV2).renewalPeriod \in {"MONTHLY", "ANNUAL"}

\* a record on PRO, billed yearly, was cancelled within its period: the tier
\* and the renewal period are kept
C24_Witness ==
    /\ Applied("subscription.cancelled")
    /\ pre # NoDoc
    /\ pre.tier = "PRO"
    /\ fx.writes = 1
    /\ store.tier = "PRO"
    /\ store.billing.renewalPeriod = "ANNUAL"
    /\ store.billing.isCancelled = T

\* a record whose tier the regular payment.captured branch set to BASIC
C24_WitnessV2 ==
    /\ reqV2.r.route = "webhook"
    /\ reqV2.r.event = "payment.captured"
    /\ respV2.status = 200
    /\ fxV2.writes = 1
    /\ preV2 # <<>>
    /\ getUserTierV2(preV2).tier = "PRO"
    /\ getUserTierV2(tierV2).tier = "BASIC"
    /\ getUserTierV2(tierV2).renewalPeriod = "ANNUAL"

(***************************************************************************)
(* The plan-change route of src/app/api/change-plan/route.ts over every    *)
(* record (SpecChange).  The route writes nothing: its answer is a         *)
(* function of the record it reads and the request.  The records are those *)
(* the BillingInfo schema allows for a subscriber: each plan of the        *)
(* catalogue, with or without a gateway subscription id, paid by UPI or    *)
(* by card, cancelled or not.                                              *)
(***************************************************************************)
SubscriberRecord(planId, sid, pm, canc) ==
    TierEntity(getPlanDetails(planId).tier,
               BillingInfo(getPlanDetails(planId).renewalPeriod, NullDate, NullDate, 1, 2,
                           sid, "cust_1", pm, T, canc, NullDate))

ChangeInitDocs ==
    { NoDoc, TierEntity("NONE", NoBilling) }
    \cup { SubscriberRecord(pl, sid, pm, canc) :
             pl \in RAZORPAY_PLAN_IDS, sid \in {Undef, "sub_1"},
             pm \in PaymentMethods, canc \in {F, T} }

InitChange == InitV1(ChangeInitDocs) /\ InitV2

NextChange ==
    \/ \E d \in PlanChangeRequests : ChangePlan(d[1], d[2], d[3])
    \/ Respond

SpecChange == InitChange /\ [][NextChange]_vars

\* tier and renewal period are those of a plan of the catalogue
KnownPlan(tier, renewalPeriod) ==
    tier \in {"BASIC", "PRO"} /\ renewalPeriod \in {"MONTHLY", "ANNUAL"}

\* the request names a plan of the catalogue other than the one the record is on
ChangeBetweenPlans ==
    /\ PlanChangeHandled
    /\ pre # NoDoc
    /\ pre.billing # NoBilling
    /\ KnownPlan(pre.tier, pre.billing.renewalPeriod)
    /\ Truthy(req.r.username)
    /\ KnownPlan(req.r.targetTier, req.r.targetRenewalPeriod)
    /\ Plan(pre.tier, pre.billing.renewalPeriod)
         # Plan(req.r.targetTier, req.r.targetRenewalPeriod)

\* C25: from each of the four plans (BASIC or PRO, monthly or annual) a change
\* to each of the three other plans passes the transition validation: the
\* table holds every pair of distinct plans, InvalidTransition is never
\* returned for two distinct known plans, and such a request of a record with
\* an active subscription goes on to a gateway call.
C25_DistinctPlansPassValidation ==
    /\ \A t1, t2 \in {"BASIC", "PRO"} : \A p1, p2 \in {"MONTHLY", "ANNUAL"} :
          Plan(t1, p1) # Plan(t2, p2) => isValidChange(t1, p1, t2, p2)
    /\ ChangeBetweenPlans =>
          /\ resp.body # "Invalid plan change"
          /\ ActiveRecord(pre) => fx.gateway # <<>>

\* a subscriber on PRO, billed yearly, paying by card, asked for BASIC monthly
\* and the request went on to the update at the gateway
C25_Witness ==
    /\ ChangeBetweenPlans
    /\ ActiveRecord(pre)
    /\ pre.tier = "PRO"
    /\ pre.billing.renewalPeriod = "ANNUAL"
    /\ req.r.targetTier = "BASIC"
    /\ req.r.targetRenewalPeriod = "MONTHLY"
    /\ resp = Response(200, "success")
    /\ Len(fx.gateway) = 1
    /\ fx.gateway[1].op = "subscriptions.update"

\* the record is on a paid tier, not cancelled, and holds no gateway
\* subscription id
PaidWithoutSubscriptionId(doc) ==
    /\ doc # NoDoc
    /\ doc.billing # NoBilling
    /\ doc.tier \in {"BASIC", "PRO"}
    /\ doc.billing.isCancelled # T
    /\ ~Truthy(doc.billing.razorpaySubscriptionId)

\* C26: a plan-change request on a record that has a paid tier and is not
\* cancelled or halted but holds no gateway subscription id is accepted and
\* handled by creating a brand-new subscription for the target plan; no
\* in-place update is attempted.
C26_NoSubscriptionIdCreatesNew ==
    ( /\ ChangeBetweenPlans
      /\ PaidWithoutSubscriptionId(pre)
      /\ ~fx.fault )
        => /\ resp.status = 200
           /\ Len(fx.gateway) = 1
           /\ fx.gateway[1].op = "subscriptions.create"
           /\ fx.gateway[1].plan = PlanIdOf(req.r.targetTier, req.r.targetRenewalPeriod)

(***************************************************************************)
(* Billing arithmetic (SpecMath): calculateRemainingCount of               *)
(* src/app/api/change-plan/route.ts lines 18-79 and                        *)
(* calculateProratedUpgradeCost of src/lib/billing-config.ts lines 40-49.  *)
(* Each initial state holds one call with its arguments; the action of the *)
(* function returns its value.  Dates and the clock of                     *)
(* calculateRemainingCount are in hours.                                   *)
(***************************************************************************)
MaxDays == 1100
MaxYears == 11
MaxCycleDays == 366
HoursPerDay == 24

\* Math.ceil(n / d) for d > 0
Ceil(n, d) == -((-n) \div d)

Min(a, b) == IF a <= b THEN a ELSE b

\* calculateRemainingCount rounding the months and years down
calculateRemainingCountRoundingDown(currentTier, newPlanDetails, clock) ==
    LET currentEndDate == BDate(currentTier, "subscriptionEndDate")
        daysRemaining == Ceil(currentEndDate - clock, HoursPerDay)
    IN  IF currentEndDate = NullDate
            THEN IF newPlanDetails.renewalPeriod = "MONTHLY" THEN 12 ELSE 5
        ELSE IF daysRemaining <= 0 THEN 1
        ELSE IF newPlanDetails.renewalPeriod = "MONTHLY"
            THEN Max(1, Min(36, daysRemaining \div 30))
            ELSE Max(1, Min(10, daysRemaining \div 365))

\* calculateRemainingCount without the upper limits
calculateRemainingCountUnclamped(currentTier, newPlanDetails, clock) ==
    LET currentEndDate == BDate(currentTier, "subscriptionEndDate")
        daysRemaining == Ceil(currentEndDate - clock, HoursPerDay)
    IN  IF currentEndDate = NullDate
            THEN IF newPlanDetails.renewalPeriod = "MONTHLY" THEN 12 ELSE 5
        ELSE IF daysRemaining <= 0 THEN 1
        ELSE IF newPlanDetails.renewalPeriod = "MONTHLY"
            THEN Max(1, Ceil(daysRemaining, 30))
            ELSE Max(1, Ceil(daysRemaining, 365))

\* the clock is `clock`; no statement of the function throws on a record the
\* routes wrote (its dates are ISO strings or absent)
calculateRemainingCount(currentTier, newPlanDetails, clock) ==
    LET currentEndDate == BDate(currentTier, "subscriptionEndDate")
        daysRemaining == Ceil(currentEndDate - clock, HoursPerDay)
        monthsRemaining == Ceil(daysRemaining, 30)
        yearsRemaining == Ceil(daysRemaining, 365)
    IN  IF currentEndDate = NullDate
            THEN IF newPlanDetails.renewalPeriod = "MONTHLY" THEN 12 ELSE 5
        ELSE IF daysRemaining <= 0 THEN 1
        ELSE IF newPlanDetails.renewalPeriod = "MONTHLY"
            THEN Max(1, Min(36, monthsRemaining))
            ELSE Max(1, Min(10, yearsRemaining))

\* a call of one of the two functions
CountCall(currentTier, newPlanId) ==
    [route |-> "calculateRemainingCount", currentTier |-> currentTier, newPlanId |-> newPlanId]

ProrateCall(currentPlanAmount, newPlanAmount, daysRemaining, totalDaysInCycle) ==
    [route |-> "calculateProratedUpgradeCost", currentPlanAmount |-> currentPlanAmount,
     newPlanAmount |-> newPlanAmount, daysRemaining |-> daysRemaining,
     totalDaysInCycle |-> totalDaysInCycle]

\* status 1: the function has returned
Returned(value) == [status |-> 1, body |-> value]

\* the clock of the calls, and the period ends: whole days from the clock, or
\* an hour less; up to MaxDays days, and around each of MaxYears years
MathClock == HoursPerDay * 3
DaysAhead ==
    ((0 - 2)..MaxDays) \cup { 365 * y + e : y \in 1..MaxYears, e \in {0, 1} }
PeriodEndsInHours ==
    { MathClock + HoursPerDay * d - h : d \in DaysAhead, h \in {0, 1} }

CountedRecords ==
    { NoDoc, TierEntity("NONE", NoBilling) }
    \cup { TierEntity("BASIC", BillingInfo("MONTHLY", NullDate, NullDate, 1, se, "sub_1",
                                           "cust_1", "card", T, F, NullDate)) :
             se \in PeriodEndsInHours \cup {NullDate} }

PlanAmounts == { getPlanDetails(pl).amount : pl \in RAZORPAY_PLAN_IDS }

\* the refund calculation of handleUPIDowngrade for a record and a target
\* plan; its dates and its clock are in days
RefundCall(currentTier, newPlanId) ==
    [route |-> "downgradeRefundAmount", currentTier |-> currentTier, newPlanId |-> newPlanId]

\* records of a subscription of each plan, the period end up to MaxCycleDays
\* days after the clock, a day before it, or absent
RefundedRecords ==
    { [ActivatedRecord(pl, "sub_1", "upi") EXCEPT !.subscriptionEndDate = se] :
        pl \in RAZORPAY_PLAN_IDS,
        se \in { MathClock + d : d \in (0 - 1)..MaxCycleDays } \cup {NullDate} }

MathCalls ==
    { CountCall(doc, pl) : doc \in CountedRecords, pl \in {PRO_MONTHLY, PRO_YEARLY} }
    \cup { ProrateCall(a, b, d, t) :
             a \in PlanAmounts, b \in PlanAmounts, d \in 0..MaxCycleDays, t \in {30, 365} }
    \cup { RefundCall(doc, pl) : doc \in RefundedRecords, pl \in RAZORPAY_PLAN_IDS }

InitMath ==
    /\ InitV2
    /\ store = NoDoc
    /\ now = MathClock
    /\ req \in { [r |-> c, at |-> MathClock] : c \in MathCalls }
    /\ pre = NoDoc
    /\ resp = NoResponse
    /\ fx = NoEffects
    /\ seq = FirstDelivery
    /\ life = NoLife
    /\ handlers = NoHandlers

RemainingCount ==
    /\ req.r.route = "calculateRemainingCount"
    /\ resp.status = 0
    /\ resp' = Returned(calculateRemainingCount(req.r.currentTier,
                                                getPlanDetails(req.r.newPlanId), req.at))
    /\ UNCHANGED <<store, req, pre, fx, seq, life, now, varsV2, handlers>>

ProratedUpgradeCost ==
    /\ req.r.route = "calculateProratedUpgradeCost"
    /\ resp.status = 0
    /\ resp' = Returned(calculateProratedUpgradeCost(req.r.currentPlanAmount,
                                                     req.r.newPlanAmount,
                                                     req.r.daysRemaining,
                                                     req.r.totalDaysInCycle))
    /\ UNCHANGED <<store, req, pre, fx, seq, life, now, varsV2, handlers>>

DowngradeRefund ==
    /\ req.r.route = "downgradeRefundAmount"
    /\ resp.status = 0
    /\ resp' = Returned(downgradeRefundAmount(req.r.currentTier,
                                              getPlanDetails(req.r.newPlanId), req.at))
    /\ UNCHANGED <<store, req, pre, fx, seq, life, now, varsV2, handlers>>

NextMath ==
    \/ RemainingCount
    \/ ProratedUpgradeCost
    \/ DowngradeRefund

SpecMath == InitMath /\ [][NextMath]_vars

\* calculateRemainingCount has returned, for a target billed monthly / yearly
CountReturned == req.r.route = "calculateRemainingCount" /\ resp.status = 1
MonthlyTarget == getPlanDetails(req.r.newPlanId).renewalPeriod = "MONTHLY"
AnnualTarget == getPlanDetails(req.r.newPlanId).renewalPeriod = "ANNUAL"

\* the period end the call was given, absent or in hours
PeriodEndGiven == BDate(req.r.currentTier, "subscriptionEndDate")

\* d days remain: the period end is more than d - 1 days and at most d days
\* after the clock
DaysRemain(d) ==
    /\ PeriodEndGiven # NullDate
    /\ PeriodEndGiven - req.at > HoursPerDay * (d - 1)
    /\ PeriodEndGiven - req.at <= HoursPerDay * d

\* C27 as stated: remainingBillingCycles for a monthly target with 400 days
\* remaining returns 36.
C27_FourHundredDaysGive36 ==
    (CountReturned /\ MonthlyTarget /\ DaysRemain(400)) => resp.body = 36

\* C27 amended: remainingBillingCycles for a monthly target with 400 days
\* remaining returns 14, the 400 days in months of 30 days rounded up; it
\* returns 36 only when more than 1050 days remain.
C27_FourHundredDaysGive14 ==
    /\ (CountReturned /\ MonthlyTarget /\ DaysRemain(400)) => resp.body = 14
    /\ (CountReturned /\ MonthlyTarget /\ PeriodEndGiven # NullDate) =>
          (resp.body = 36 <=> PeriodEndGiven - req.at > HoursPerDay * 1050)

\* the call for a monthly target, 400 days less an hour remaining, returned 14
C27_Witness ==
    /\ CountReturned
    /\ MonthlyTarget
    /\ PeriodEndGiven - req.at = HoursPerDay * 400 - 1
    /\ resp.body = 14

\* the call for a monthly target with 1051 days remaining returned 36
C27_ClampWitness ==
    /\ CountReturned
    /\ MonthlyTarget
    /\ DaysRemain(1051)
    /\ resp.body = 36

\* C28: remainingBillingCycles always returns a positive count: within
\* [1, 36] for a monthly target and within [1, 10] for an annual target,
\* exactly 1 when the period end has already passed, and the default (12
\* monthly, 5 annual) when the period end is absent.
C28_RemainingCountPositiveAndBounded ==
    CountReturned =>
        /\ resp.body >= 1
        /\ MonthlyTarget => resp.body <= 36
        /\ AnnualTarget => resp.body <= 10
        /\ (PeriodEndGiven # NullDate /\ PeriodEndGiven <= req.at) => resp.body = 1
        /\ PeriodEndGiven = NullDate =>
              resp.body = IF MonthlyTarget THEN 12 ELSE 5

\* the call for an annual target with eleven years remaining returned 10
C28_Witness ==
    /\ CountReturned
    /\ AnnualTarget
    /\ PeriodEndGiven - req.at = HoursPerDay * 365 * 11
    /\ resp.body = 10

\* the call for a period end a day before the clock returned 1
C28_PassedWitness ==
    /\ CountReturned
    /\ MonthlyTarget
    /\ PeriodEndGiven # NullDate
    /\ PeriodEndGiven < req.at
    /\ resp.body = 1

\* the call for a record without billing returned the default of the yearly target
C28_AbsentWitness ==
    /\ CountReturned
    /\ AnnualTarget
    /\ req.r.currentTier = TierEntity("NONE", NoBilling)
    /\ resp.body = 5

\* calculateProratedUpgradeCost has returned
ProrateReturned == req.r.route = "calculateProratedUpgradeCost" /\ resp.status = 1

\* twice the price difference over the days remaining, in units of
\* 1 / (2 * cycle length): the value to round, doubled
TwiceProrated == 2 * (req.r.newPlanAmount - req.r.currentPlanAmount) * req.r.daysRemaining

\* C29: prorate(old, new, days, cycle) equals
\* round((new - old) / cycle * days) when that value is positive and 0
\* otherwise; prorate(8900, 12900, 15, 30) = 2000, and a downgrade never
\* yields a negative amount.
C29_ProrateRoundedAndFloored ==
    ProrateReturned =>
        /\ resp.body >= 0
        \* the value rounds to 1 or more: the result is the nearest integer, halves up
        /\ TwiceProrated >= req.r.totalDaysInCycle =>
              /\ (2 * resp.body - 1) * req.r.totalDaysInCycle <= TwiceProrated
              /\ TwiceProrated < (2 * resp.body + 1) * req.r.totalDaysInCycle
        /\ TwiceProrated < req.r.totalDaysInCycle => resp.body = 0
        /\ req.r.newPlanAmount < req.r.currentPlanAmount => resp.body = 0
        /\ req.r = ProrateCall(8900, 12900, 15, 30) => resp.body = 2000

\* prorate(8900, 12900, 15, 30) returned 2000
C29_Witness ==
    /\ ProrateReturned
    /\ req.r = ProrateCall(8900, 12900, 15, 30)
    /\ resp.body = 2000

\* a downgrade from PRO yearly to BASIC monthly in mid-cycle returned 0
C29_DowngradeWitness ==
    /\ ProrateReturned
    /\ req.r = ProrateCall(108900, 8900, 200, 365)
    /\ resp.body = 0

(***************************************************************************)
(* The first charge of a plan change in the mandate (UPI) flow.            *)
(***************************************************************************)
\* a request to the plan-change route went the mandate flow and was answered
\* with success: the record is paid by UPI and the new subscription was created
MandateChangeDone ==
    /\ req.r.route = "change-plan"
    /\ resp.status = 200
    /\ BField(pre, "paymentMethod") = "upi"
    /\ fx.gateway # <<>>
    /\ fx.gateway[1].op = "subscriptions.create"

\* part of the paid period of the record is unused at the time of the request
CreditOwed == BDate(pre, "subscriptionEndDate") > req.at

\* C30: in a mandate-flow plan change where credit for the unused period is
\* owed, a discounted first invoice is created (for targetPrice - credit,
\* never below 0); when no credit is owed, no discounted invoice is created
\* and the first charge is the full target price.
C30_CreditOwedDiscountedInvoice ==
    MandateChangeDone =>
        ( CreditOwed <=> \E i \in 1..Len(fx.gateway) : fx.gateway[i].op = "invoices.create" )

\* a request of the routes of part_003 went through handleUPIUpgrade: the
\* record is paid by UPI, holds a subscription, and the replacement was created
UPIUpgradeCreated ==
    /\ reqV2.r.route \in {"upgrade-by-target", "upgrade-by-plan-id"}
    /\ preV2 # <<>>
    /\ getUserTierV2(preV2).payment_method = "upi"
    /\ Truthy(getUserTierV2(preV2).razorpaySubscriptionId)
    /\ fxV2.gateway # <<>>
    /\ fxV2.gateway[1].op = "subscriptions.create"
    /\ fxV2.gateway[1].ok

\* the invoices the request asked the gateway for
InvoicesAsked == { i \in 1..Len(fxV2.gateway) : fxV2.gateway[i].op = "invoices.create" }

\* the statement of C30 for handleUPIUpgrade of part_003 (SpecPlan): an invoice
\* is asked for exactly when the credit is positive, and its amount is the
\* target price less the credit, or 0
C30_UpgradeInvoiceDiscounted ==
    UPIUpgradeCreated =>
        LET credit == proratedCredit(getUserTierV2(preV2), reqV2.at)
            price == getPlanDetails(IF reqV2.r.route = "upgrade-by-target"
                                        THEN PlanIdOf(reqV2.r.targetTier,
                                                      reqV2.r.targetRenewalPeriod)
                                        ELSE reqV2.r.newPlanId).amount
        IN  /\ credit > 0 <=> InvoicesAsked # {}
            /\ \A i \in InvoicesAsked :
                  /\ fxV2.gateway[i].amount >= 0
                  /\ fxV2.gateway[i].amount = Max(0, price - credit)

\* an upgrade in the mandate flow of part_003 asked for an invoice of less
\* than the price of the target plan
C30_UpgradeInvoiceWitness ==
    /\ UPIUpgradeCreated
    /\ respV2.status = 200
    /\ \E i \in InvoicesAsked :
          /\ fxV2.gateway[i].ok
          /\ fxV2.gateway[i].amount > 0
          /\ fxV2.gateway[i].amount < getPlanDetails(PRO_MONTHLY).amount

\* an upgrade in the mandate flow of part_003 of a record with no period end
\* asked for no invoice
C30_UpgradeNoCreditWitness ==
    /\ UPIUpgradeCreated
    /\ respV2.status = 200
    /\ getUserTierV2(preV2).subscriptionEndDate = NullDate
    /\ InvoicesAsked = {}

(***************************************************************************)
(* The refund of a downgrade in the mandate flow (SpecMath).               *)
(***************************************************************************)
\* the refund calculation has returned
RefundReturned == req.r.route = "downgradeRefundAmount" /\ resp.status = 1

\* the days of the paid period left at the time of the call
UnusedDays ==
    IF req.r.currentTier.subscriptionEndDate = NullDate
        THEN 0
        ELSE Max(0, req.r.currentTier.subscriptionEndDate - req.at)

\* the target plan costs less than the plan the record is on
CheaperTarget ==
    getPlanDetails(req.r.newPlanId).amount
        < getPlanDetails(getCurrentPlanId(req.r.currentTier.tier,
                                          req.r.currentTier.renewalPeriod)).amount

\* C31: a refund for an unused period is 0 when no unused days remain and at
\* least 100 minor units whenever unused days > 0.
C31_RefundZeroOrAtLeast100 ==
    (RefundReturned /\ CheaperTarget) =>
        /\ UnusedDays = 0 => resp.body = 0
        /\ UnusedDays > 0 => resp.body >= 100

\* with no unused day the refund of a downgrade is 0
C31_NoUnusedDaysNoRefund ==
    (RefundReturned /\ UnusedDays = 0) => resp.body = 0

(***************************************************************************)
(* Events of a subscription the record does not point to (Spec).           *)
(***************************************************************************)
\* the handled event names a subscription other than the one on the record
OtherSubscriptionApplied ==
    /\ VerifiedHandled
    /\ ~Inapplicable(req.r)
    /\ ~fx.fault
    /\ BField(pre, "razorpaySubscriptionId") \in SubIds
    /\ BField(pre, "razorpaySubscriptionId") # req.r.subscription.id

\* the record's tier and subscription id are what they were before the event
TierAndSubscriptionKept ==
    /\ store.tier = pre.tier
    /\ BField(store, "razorpaySubscriptionId") = BField(pre, "razorpaySubscriptionId")

\* C32: a webhook event whose subscription id differs from the id stored on
\* the record does not change the record's tier and does not clear or
\* replace its current subscription id.
C32_OtherSubscriptionEventIgnored ==
    OtherSubscriptionApplied => TierAndSubscriptionKept

\* the same for the subscription.cancelled of another subscription alone
C32_SupersededCancellationIgnored ==
    (OtherSubscriptionApplied /\ req.r.event = "subscription.cancelled")
        => TierAndSubscriptionKept

(***************************************************************************)
(* Webhook handlers of one user running at the same time (SpecRace).       *)
(* The route takes no lock and the store offers none: each await of a      *)
(* handler on the store (getTierById, updateUserTier) is a step of its     *)
(* own, and the steps of two handlers interleave in any order.  A handler  *)
(* keeps what it has read in existingTier and isConfirmationAlreadySent.   *)
(* pre holds the record as it was before the two events, fx counts the     *)
(* store calls and the confirmations sent.                                 *)
(***************************************************************************)
Handler(event, subscription) ==
    [event |-> event, subscription |-> subscription,
     pc |-> IF event = "subscription.activated" THEN "check" ELSE "read",
     existingTier |-> NoDoc, isConfirmationAlreadySent |-> FALSE]

\* the events of the two handlers
RaceEvents ==
    { <<ev, Subscription(id, pl, "u1", 2, 0, "card")>> :
        ev \in {"subscription.activated", "subscription.charged", "subscription.updated",
                "subscription.resumed", "subscription.authenticated"},
        id \in SubIds, pl \in {BASIC_MONTHLY, PRO_MONTHLY} }
    \cup CancelPayloads

\* records the two events meet: a new user's, a trial user's, a subscriber's
\* whose confirmation was sent, and that record after its subscription ended
RaceInitDocs ==
    (InitDocs \ {NoDoc})
    \cup { SubscriberRecord(BASIC_MONTHLY, "sub_1", "card", F),
           handleSubscriptionCancelled(SubscriberRecord(BASIC_MONTHLY, "sub_1", "card", F),
                                       Subscription("sub_1", BASIC_MONTHLY, "u1", 2, 1, "card"),
                                       1, 0).doc }

InitRace ==
    /\ InitV2
    /\ store \in RaceInitDocs
    /\ pre = store
    /\ handlers \in { <<Handler(a[1], a[2]), Handler(b[1], b[2])>> :
                        a \in RaceEvents, b \in RaceEvents }
    /\ now = 1
    /\ req = Idle
    /\ resp = NoResponse
    /\ fx = NoEffects
    /\ seq = FirstDelivery
    /\ life = NoLife

\* handleSubscriptionActivated, lines 210-211: the first read of the record
CheckConfirmation(p) ==
    /\ handlers[p].pc = "check"
    /\ handlers' = [handlers EXCEPT
                      ![p].isConfirmationAlreadySent =
                          BField(getTierById(store), "isConfirmationSent") = T,
                      ![p].pc = "read"]
    /\ fx' = [fx EXCEPT !.reads = @ + 1]
    /\ UNCHANGED <<store, now, req, pre, resp, seq, life, varsV2>>

\* getTierById of updateSubscriptionStatus (line 293) and of
\* handleSubscriptionCancelled (line 321)
ReadTier(p) ==
    /\ handlers[p].pc = "read"
    /\ handlers' = [handlers EXCEPT
                      ![p].existingTier = getTierById(store),
                      ![p].pc = IF handlers[p].event = "subscription.cancelled"
                                   /\ getTierById(store) = NoDoc
                                  THEN "done" ELSE "write"]
    /\ fx' = [fx EXCEPT !.reads = @ + 1]
    /\ UNCHANGED <<store, now, req, pre, resp, seq, life, varsV2>>

\* updateUserTier of updateSubscriptionStatus (line 313) and of
\* handleSubscriptionCancelled (lines 351, 376): tier and billing computed
\* from the record read before
WriteTier(p) ==
    LET h == handlers[p]
        w == IF h.event = "subscription.cancelled"
               THEN handleSubscriptionCancelled(h.existingTier, h.subscription, now, 0).doc
               ELSE updateSubscriptionStatus(h.existingTier, h.subscription,
                                             getPlanDetails(h.subscription.plan_id), 0, 0).doc
    IN  /\ h.pc = "write"
        /\ store' = updateUserTier(store, w.tier, w.billing)
        /\ handlers' = [handlers EXCEPT
                          ![p].pc = IF h.event = "subscription.activated"
                                       /\ ~h.isConfirmationAlreadySent
                                      THEN "confirm" ELSE "done"]
        /\ fx' = [fx EXCEPT !.writes = @ + 1]
        /\ UNCHANGED <<now, req, pre, resp, seq, life, varsV2>>

\* handleSubscriptionActivated, lines 217-224: the confirmation is sent and
\* the record is read again
SendConfirmation(p) ==
    /\ handlers[p].pc = "confirm"
    /\ handlers' = [handlers EXCEPT
                      ![p].existingTier = getTierById(store),
                      ![p].pc = IF getTierById(store) = NoDoc THEN "done" ELSE "flag"]
    /\ fx' = [fx EXCEPT !.reads = @ + 1, !.confirmations = @ + 1]
    /\ UNCHANGED <<store, now, req, pre, resp, seq, life, varsV2>>

\* handleSubscriptionActivated, lines 226-241: the record read again is
\* written back with isConfirmationSent: true
SetConfirmationSent(p) ==
    LET existingTierUpdated == handlers[p].existingTier
    IN  /\ handlers[p].pc = "flag"
        /\ store' = updateUserTier(store, existingTierUpdated.tier,
                                   confirmationBilling(existingTierUpdated))
        /\ handlers' = [handlers EXCEPT ![p].pc = "done"]
        /\ fx' = [fx EXCEPT !.writes = @ + 1]
        /\ UNCHANGED <<now, req, pre, resp, seq, life, varsV2>>

NextRace ==
    \/ \E p \in 1..2 : CheckConfirmation(p)
    \/ \E p \in 1..2 : ReadTier(p)
    \/ \E p \in 1..2 : WriteTier(p)
    \/ \E p \in 1..2 : SendConfirmation(p)
    \/ \E p \in 1..2 : SetConfirmationSent(p)

SpecRace == InitRace /\ [][NextRace]_vars

\* both handlers have returned
BothDone == handlers # NoHandlers /\ \A p \in 1..2 : handlers[p].pc = "done"

\* the record a handler leaves when it runs alone on doc
RunAlone(doc, h) ==
    Dispatch(doc, h.subscription, h.event, getPlanDetails(h.subscription.plan_id), now, 0).doc

\* the records the two handlers leave when one runs after the other
SerialOutcomes ==
    { RunAlone(RunAlone(pre, handlers[1]), handlers[2]),
      RunAlone(RunAlone(pre, handlers[2]), handlers[1]) }

\* C33: when two webhook handlers for the same user run concurrently, the
\* final record equals the result of running them in some sequential order:
\* no handler overwrites, with values it read earlier, fields that another
\* handler wrote in between.
C33_FinalRecordIsSerial ==
    BothDone => store \in SerialOutcomes

\* one handler is of subscription.activated, the other of a charged,
\* updated, resumed or authenticated event
ActivatedBesideStatusEvent ==
    /\ handlers # NoHandlers
    /\ \E p \in 1..2 :
          /\ handlers[p].event = "subscription.activated"
          /\ handlers[3 - p].event \in {"subscription.charged", "subscription.updated",
                                        "subscription.resumed", "subscription.authenticated"}

\* a confirmation was sent by one of the two handlers, or before them
ConfirmationWasSent ==
    fx.confirmations > 0 \/ BField(pre, "isConfirmationSent") = T

\* C35: under any interleaving of a subscription.activated handler with a
\* charged / updated / resumed / authenticated handler for the same user,
\* once both have finished the stored isConfirmationSent is true whenever a
\* confirmation was sent.
C35_FlagSetOnceBothFinished ==
    (BothDone /\ ActivatedBesideStatusEvent /\ ConfirmationWasSent)
        => BField(store, "isConfirmationSent") = T

\* run one after the other, in either order, the two handlers leave the flag set
C35_SerialRunsSetFlag ==
    (BothDone /\ ActivatedBesideStatusEvent)
        => \A doc \in SerialOutcomes : BField(doc, "isConfirmationSent") = T

(***************************************************************************)
(* Late events of a subscription that has ended (Spec).                    *)
(***************************************************************************)
\* the record as the cancellation of an ended subscription leaves it
EndedByCancellation(doc) ==
    /\ doc # NoDoc
    /\ doc.tier = "NONE"
    /\ BField(doc, "isCancelled") = T

\* an activated / charged / updated event has been applied for the
\* subscription whose end set the tier of the record to NONE
LateEventApplied ==
    /\ VerifiedHandled
    /\ ~Inapplicable(req.r)
    /\ ~fx.fault
    /\ req.r.event \in {"subscription.activated", "subscription.charged",
                        "subscription.updated"}
    /\ EndedByCancellation(pre)
    /\ life.ended = req.r.subscription.id

\* C34: after a subscription.cancelled event reporting that the subscription
\* has ended has set tier to NONE, a late or redelivered activated / charged
\* / updated event for that same subscription does not restore a paid tier
\* or re-attach the subscription id.
C34_EndedSubscriptionStaysEnded ==
    LateEventApplied =>
        /\ store.tier = "NONE"
        /\ BField(store, "razorpaySubscriptionId") # req.r.subscription.id

(***************************************************************************)
(* A plan change and the events that confirm it (SpecConfirm): the         *)
(* downgrade route and the upgrade route work on the record of a           *)
(* subscriber, every call succeeding, and the webhook route of lines       *)
(* 399-773 applies subscription.updated, subscription.activated and        *)
(* payment.captured events.                                                *)
(***************************************************************************)
ConfirmingEvents == {"subscription.updated", "subscription.activated", "payment.captured"}

\* the deliveries of these events that verify and parse, no call failing
ConfirmingDeliveries ==
    { d \in WebhookDeliveriesV2 :
        /\ d[1].signature = expectedSignature
        /\ d[1].body = "json"
        /\ d[1].event \in ConfirmingEvents
        /\ d[2] = 0
        /\ d[3] = 0 }

NextConfirm ==
    \/ \E d \in PlanIdRequests("downgrade-subscription", {Undef}, 0) :
            Downgrade(d[1], 0, 0, d[3])
    \/ \E d \in UpgradeRequests : d[2] = 0 /\ d[3] = 0 /\ UpgradeSubscription(d[1], 0, 0)
    \/ \E d \in ConfirmingDeliveries, p \in 1..2 : WebhookV2(d[1], 0, 0, p)
    \/ RespondV2

SpecConfirm == InitSpecPlan /\ [][NextConfirm]_vars

\* the record before the event, when the user has one
RecordBefore == getUserTierV2(preV2)
ChangePending ==
    /\ preV2 # <<>>
    /\ RecordBefore # Shelved
    /\ RecordBefore.upgradeInProgress = T

\* subscription.updated of the plan a card downgrade moved the record towards
ConfirmsCardDowngrade ==
    /\ EventApplied("subscription.updated")
    /\ ChangePending
    /\ ~Truthy(RecordBefore.newSubscriptionId)
    /\ RecordBefore.targetPlanId = reqV2.r.entity.planId

\* subscription.activated of the subscription the upgrade route created
ConfirmsUpgradeByActivation ==
    /\ EventApplied("subscription.activated")
    /\ ChangePending
    /\ RecordBefore.newSubscriptionId = reqV2.r.entity.id
    /\ reqV2.r.entity.isUpgrade = "true"

\* payment.captured of the order the upgrade route created, the upgrade
\* still pending
ConfirmsUpgradeByPayment ==
    /\ EventApplied("payment.captured")
    /\ ChangePending
    /\ Truthy(RecordBefore.newSubscriptionId)
    /\ reqV2.r.entity.type = "prorated_upgrade"
    /\ Truthy(reqV2.r.entity.username)
    /\ RecordBefore.proratedOrderId = reqV2.r.entity.orderId

\* C36: after a plan-change request has set upgradeInProgress to true,
\* applying the confirming webhook for that change (subscription.updated for
\* a card downgrade; subscription.activated or the matching payment.captured
\* for an upgrade) leaves upgradeInProgress false.
C36_ConfirmationClearsUpgradeInProgress ==
    (ConfirmsCardDowngrade \/ ConfirmsUpgradeByActivation \/ ConfirmsUpgradeByPayment)
        => getUserTierV2(tierV2).upgradeInProgress = F

\* the two confirmations of an upgrade do leave upgradeInProgress false
C36_UpgradeConfirmationClears ==
    (ConfirmsUpgradeByActivation \/ ConfirmsUpgradeByPayment)
        => getUserTierV2(tierV2).upgradeInProgress = F

\* a confirmation of an upgrade was applied, by activation and by payment
C36_ActivationWitness == ConfirmsUpgradeByActivation
C36_PaymentWitness == ConfirmsUpgradeByPayment

(***************************************************************************)
(* Failure of a downgrade in the mandate flow (SpecPlan).                  *)
(***************************************************************************)
\* a downgrade request of a record paid by mandate (UPI) was answered with
\* an error after handleUPIDowngrade had begun
UPIDowngradeFailed ==
    /\ reqV2.r.route = "downgrade-subscription"
    /\ respV2.status >= 400
    /\ preV2 # <<>>
    /\ getUserTierV2(preV2).payment_method = "upi"
    /\ fxV2.gateway # <<>>

\* the gateway cancelled the subscription the record points to
PointedSubscriptionCancelled ==
    \E i \in 1..Len(fxV2.gateway) :
        /\ fxV2.gateway[i].op = "subscriptions.cancel"
        /\ fxV2.gateway[i].ok
        /\ fxV2.gateway[i].sub = getUserTierV2(tierV2).razorpaySubscriptionId

\* C37: if a mandate-flow (UPI) downgrade request reports failure, the
\* gateway subscription the record points to has not been cancelled: a
\* failed request never leaves the user without a live subscription while
\* the record still shows the old subscription id and paid tier.
C37_FailedDowngradeKeepsSubscription ==
    UPIDowngradeFailed => ~PointedSubscriptionCancelled

(***************************************************************************)
(* The two confirmations of a prorated upgrade, in either order            *)
(* (SpecConfirm).                                                          *)
(***************************************************************************)
\* the record holds a prorated upgrade in progress, as the upgrade route
\* leaves it: the new plan, the new subscription and the order of the payment
ProratedUpgradePending(docs) ==
    /\ docs # <<>>
    /\ getUserTierV2(docs) # Shelved
    /\ getUserTierV2(docs).upgradeInProgress = T
    /\ Truthy(getUserTierV2(docs).newPlanId)
    /\ Truthy(getUserTierV2(docs).newSubscriptionId)
    /\ Truthy(getUserTierV2(docs).proratedOrderId)

\* payment.captured of the order of the pending upgrade
MatchingPaymentCaptured(docs) ==
    WebhookRequestV2(expectedSignature, "json", "payment.captured",
                     PaymentV2("prorated_upgrade", "u1",
                               getUserTierV2(docs).proratedOrderId, Undef, Undef))

\* subscription.activated of the subscription the upgrade route created
NewSubscriptionActivated(docs) ==
    WebhookRequestV2(expectedSignature, "json", "subscription.activated",
                     SubscriptionV2(getUserTierV2(docs).newSubscriptionId, "USER#u1",
                                    getUserTierV2(docs).newPlanId, "true"))

\* the documents after the webhook route has applied rq, no call failing
AfterEvent(docs, rq) == POSTV2(docs, rq, now, 0, 0, 1).docs

PaymentThenActivation ==
    getUserTierV2(AfterEvent(AfterEvent(tierV2, MatchingPaymentCaptured(tierV2)),
                             NewSubscriptionActivated(tierV2)))

ActivationThenPayment ==
    getUserTierV2(AfterEvent(AfterEvent(tierV2, NewSubscriptionActivated(tierV2)),
                             MatchingPaymentCaptured(tierV2)))

\* C38: for a prorated upgrade in progress, applying the matching
\* payment.captured and the new subscription's subscription.activated in
\* either order ends in the same tier, the same gateway subscription id and
\* upgradeInProgress = false.
C38_ConfirmationsCommute ==
    ProratedUpgradePending(tierV2) =>
        /\ PaymentThenActivation.tier = ActivationThenPayment.tier
        /\ PaymentThenActivation.tier = getPlanDetails(getUserTierV2(tierV2).newPlanId).tier
        /\ PaymentThenActivation.razorpaySubscriptionId
              = ActivationThenPayment.razorpaySubscriptionId
        /\ PaymentThenActivation.razorpaySubscriptionId = getUserTierV2(tierV2).newSubscriptionId
        /\ PaymentThenActivation.upgradeInProgress = F
        /\ ActivationThenPayment.upgradeInProgress = F

\* the payment was applied first and the activation after it: the record is
\* on PRO with the new subscription and no upgrade in progress
C38_Witness ==
    /\ EventApplied("subscription.activated")
    /\ preV2 # <<>>
    /\ RecordBefore # Shelved
    /\ RecordBefore.proratedPaid = T
    /\ RecordBefore.tier = "PRO"
    /\ RecordBefore.razorpaySubscriptionId = "sub_1"
    /\ RecordBefore.newSubscriptionId = reqV2.r.entity.id
    /\ reqV2.r.entity.isUpgrade = "true"
    /\ getUserTierV2(tierV2).tier = "PRO"
    /\ getUserTierV2(tierV2).razorpaySubscriptionId = "sub_2"
    /\ getUserTierV2(tierV2).upgradeInProgress = F

\* the activation was applied first and the payment after it: the record
\* stays as the activation left it
C38_ActivationFirstWitness ==
    /\ EventApplied("payment.captured")
    /\ reqV2.r.entity.type = "prorated_upgrade"
    /\ preV2 # <<>>
    /\ RecordBefore # Shelved
    /\ RecordBefore.subscriptionTransitioned = T
    /\ RecordBefore.proratedPaid # T
    /\ RecordBefore.proratedOrderId = reqV2.r.entity.orderId
    /\ RecordBefore.tier = "PRO"
    /\ RecordBefore.razorpaySubscriptionId = "sub_2"
    /\ tierV2 = preV2

(***************************************************************************)
(* payment.captured of a regular subscription payment (SpecV2).            *)
(***************************************************************************)
\* a payment.captured event that is not a prorated upgrade payment was
\* applied to a record on a paid tier
RegularPaymentOnPaidTier ==
    /\ EventApplied("payment.captured")
    /\ ~(reqV2.r.entity.type = "prorated_upgrade" /\ Truthy(reqV2.r.entity.username))
    /\ preV2 # <<>>
    /\ RecordBefore # Shelved
    /\ RecordBefore.tier \in PaidTiers

\* C39: payment.captured for a regular (non-prorated) subscription payment
\* never changes the tier of a record that is already on a paid tier; in
\* particular it never lowers PRO to BASIC.
C39_RegularPaymentKeepsPaidTier ==
    RegularPaymentOnPaidTier => getUserTierV2(tierV2).tier = RecordBefore.tier

(***************************************************************************)
(* The prorated amount of an upgrade against the price difference          *)
(* (SpecV2).                                                               *)
(***************************************************************************)
\* the upgrade route created the order of a prorated payment
UpgradeOrderCreated ==
    /\ reqV2.r.route = "upgrade-subscription"
    /\ respV2.status = 200
    /\ fxV2.gateway # <<>>
    /\ fxV2.gateway[1].op = "orders.create"

\* the amount of that order
OrderAmount ==
    upgradeProratedAmount(RecordBefore, getPlanDetails(reqV2.r.newPlanId), reqV2.at)

\* the price of the new plan less the price of the plan the record is on
FullPriceDifference ==
    getPlanDetails(reqV2.r.newPlanId).amount
        - getPlanDetails(getCurrentPlanId(RecordBefore.tier,
                                          OrMonthly(RecordBefore.renewalPeriod))).amount

\* C40: for any stored period end, the prorated amount charged for an
\* upgrade never exceeds the full price difference between the new plan and
\* the current plan for one cycle.
C40_ProratedAtMostPriceDifference ==
    UpgradeOrderCreated => OrderAmount <= FullPriceDifference

\* an order was created for no more than the price difference
C40_WithinDifferenceReached ==
    UpgradeOrderCreated /\ OrderAmount <= FullPriceDifference
====
